---- MODULE Spec2Model ----
(***************************************************************************)
(* Multi-tenant gateway core: MultiTenantGatewayManager (cache of user     *)
(* instances, token index, pending-request counters, eviction), the        *)
(* pending-request wrapper and the multi-tenant connect authorisation.     *)
(*                                                                         *)
(* Asynchronous methods are split at their await points: every step of an  *)
(* async call is one action, synchronous methods are one action each.      *)
(* Strings that the code inspects character by character (user ids) are    *)
(* sequences of one-character strings; the empty sequence is the empty     *)
(* string, which JavaScript treats as falsy.                               *)
(***************************************************************************)
EXTENDS Integers, Sequences, FiniteSets, Bags, TLC

VARIABLES
  userInstances,      \* Map<string, UserInstance>, in insertion order
  tokenToUserId,      \* Map<string, string>, <<>> when the token is absent
  workspaceResolvers, \* keys of Map<string, WorkspaceFileResolver>
  disk,               \* {configRoot}/users/{id}/config.json per user id
  lastSyncAt,         \* NoTime stands for null
  syncFailures,
  cloudBackendUrl,    \* options.cloudBackendUrl: TRUE when a URL is configured
  now,                \* Date.now()
  calls,              \* async manager calls in flight: a bag of call records
  reqs,               \* wrapWithPendingRequests invocations in flight
  contexts,           \* user ids for which a MultiTenantAgentContext exists
  synced,             \* history: status of the last record applied per user
  service,            \* the ConfigSyncService: its fields and its doSync calls
  applied,            \* history: the record list of a batch and the state it left
  cleanupTimer,       \* the manager's cleanupTimer field and the intervals set
  files,              \* the files a tenant's WorkspaceFileResolver works on
  lastOp,             \* the last step taken: operation, arguments, result
  emitted             \* events emitted by the last step, in order

vars == <<userInstances, tokenToUserId, workspaceResolvers, disk, lastSyncAt,
          syncFailures, cloudBackendUrl, now, calls, reqs, contexts, synced,
          service, applied, cleanupTimer, files, lastOp, emitted>>

---------------------------------------------------------------------------
(* Bounds of the model *)

MaxTime == 1
MaxCalls == 2
MaxReqs == 1
MaxBatch == 2
MaxSyncFailures == 4
MaxPage == 1

(* options of the manager under analysis *)
MaxCachedUsers == 1
UserIdleTimeoutMs == 0

MaxUserIdLen == 128

---------------------------------------------------------------------------
(* Value domains *)

RawUserIds == { <<"a">>, <<"b", "/">>, <<"/">> }
Tokens == {"t1", "t2"}
Configs == {"c1", "c2"}
Statuses == {"active", "suspended", "expired"}
LlmApiKeys == {"undefined", "k1"}

NoUser == <<>>
NoConfig == "null"
NoToken == ""
NoTime == -1

---------------------------------------------------------------------------
(* sanitizeUserId *)

AllowedChars == {"a", "b", "_", "-"}

RECURSIVE RemoveDotDot(_)
RemoveDotDot(s) ==
  LET Match(i) == s[i] = "." /\ s[i + 1] = "."
  IN  IF \A i \in 1..(Len(s) - 1) : ~Match(i) THEN s
      ELSE LET m == CHOOSE i \in 1..(Len(s) - 1) :
                      Match(i) /\ \A j \in 1..(i - 1) : ~Match(j)
           IN  SubSeq(s, 1, m - 1) \o RemoveDotDot(SubSeq(s, m + 2, Len(s)))

RemoveSeparators(s) == SelectSeq(s, LAMBDA c : c \notin {"/", "\\"})

KeepDisallowed(s) == s

ReplaceDisallowed(s) ==
  [i \in 1..Len(s) |-> IF s[i] \in AllowedChars THEN s[i] ELSE "_"]

SanitizedOf(userId) == ReplaceDisallowed(RemoveSeparators(RemoveDotDot(userId)))

ThrowsWhenEmpty(userId) == Len(SanitizedOf(userId)) = 0

SanitizeThrows(userId) ==
  \/ Len(SanitizedOf(userId)) = 0
  \/ Len(SanitizedOf(userId)) > MaxUserIdLen

sanitizeUserId(userId) == SanitizedOf(userId)

Users == { sanitizeUserId(r) : r \in { x \in RawUserIds : ~SanitizeThrows(x) } }

---------------------------------------------------------------------------
(* Map helpers over userInstances *)

Has(insts, userId) == \E i \in 1..Len(insts) : insts[i].userId = userId

Get(insts, userId) ==
  insts[CHOOSE i \in 1..Len(insts) : insts[i].userId = userId]

MapSet(insts, inst) ==
  IF Has(insts, inst.userId)
  THEN [i \in 1..Len(insts) |->
          IF insts[i].userId = inst.userId THEN inst ELSE insts[i]]
  ELSE Append(insts, inst)

MapDelete(insts, userId) == SelectSeq(insts, LAMBDA x : x.userId # userId)

Truthy(str) == str # <<>>

\* the Promise an async method returns: settled at once when the method
\* returns before its first await, pending otherwise
Promise(settled, value) == [kind |-> "promise", settled |-> settled, value |-> value]

\* if (userId) on a Promise object: an object is truthy whatever it settles to
PromiseTruthy(p) == p.kind = "promise" \/ Truthy(p.value)

\* Calls in flight.  A call record holds the locals of an async method
\* that is suspended at an await; calls with equal locals are counted.
InFlight == BagToSet(calls)

CanStart == BagCardinality(calls) < MaxCalls

Started(c) == calls (+) SetToBag({c})

Finished(c) == calls (-) SetToBag({c})

Resumed(c, d) == (calls (-) SetToBag({c})) (+) SetToBag({d})

(* options of the sync service under analysis: the default interval, and
   retries from 1 s up to 8 s with an alert from the fourth failure on *)
SyncIntervalMs == 300000
InitialRetryDelayMs == 1000
MaxRetryDelayMs == 8000
AlertThreshold == 4

\* the delay of the follow-up sync for the next page
FollowUpDelayMs == 100

\* syncTimer = null; a handle is the delay it was set with and whether
\* its callback is still to run
NoTimer == [delay |-> -1, pending |-> FALSE]
NoTimestamp == "null"
SyncTimestamps == {"s1", "s2"}

\* the return value of the doSync that returned in the last step, with what
\* the call was: who started it, the page flags of the response it applied,
\* whether onAlert was invoked
NoSyncResult ==
  [success |-> FALSE, usersUpdated |-> 0, error |-> "none", origin |-> "none",
   hasMore |-> FALSE, nextCursor |-> FALSE, alerted |-> FALSE]

\* Workspace files of one tenant: the names the resolver is asked for (one
\* with a built-in default, one without), file contents, and the number of
\* writeWorkspaceFile calls per name.
MaxWrites == 1
Filenames == {"SOUL.md", "notes.md"}
Contents == {"", "x"}
NoFile == "ENOENT"
NotWritten == "none"

\* what setupUserWorkspace creates below {workspaceRoot}/users/{userId}: the
\* directories, and the files, each one [kind, a, b] with kind "ENOENT" for
\* a missing file
SetupDirs == {"agent", "sessions", "memory", "custom"}
SetupFiles == {"auth-profiles.json", "models.json", "openclaw.json",
               "HEARTBEAT.md", "USER.md"}
FileOf(kind, a, b) == [kind |-> kind, a |-> a, b |-> b]
Missing == FileOf("ENOENT", "", "")
NoHome == [dirs |-> {}, files |-> [f \in SetupFiles |-> Missing]]

\* interval handles that setInterval can hand out
MaxTimers == 2
\* this.cleanupTimer = null (handle 0), no interval set
NoCleanupTimer == [handle |-> 0, intervals |-> {}]

\* a workspace without custom and template files
NoWorkspace ==
  [custom |-> [f \in Filenames |-> NoFile],
   template |-> [f \in Filenames |-> NoFile],
   written |-> [f \in Filenames |-> NotWritten],
   begun |-> [f \in Filenames |-> 0],
   home |-> NoHome]

Event(type, userId, reason) == [type |-> type, userId |-> userId, reason |-> reason]

Op(op, arg, ret) == [op |-> op, arg |-> arg, ret |-> ret]

TypeOK ==
  /\ \A i \in 1..Len(userInstances) :
       /\ userInstances[i].userId \in Users
       /\ userInstances[i].config \in Configs
       /\ userInstances[i].status \in Statuses
       /\ userInstances[i].llmApiKey \in LlmApiKeys
       /\ userInstances[i].lastActivityAt \in 0..MaxTime
       /\ userInstances[i].pendingRequests \in Int
  /\ \A i, j \in 1..Len(userInstances) :
       userInstances[i].userId = userInstances[j].userId => i = j
  /\ tokenToUserId \in [Tokens -> Users \cup {NoUser}]
  /\ workspaceResolvers \subseteq Users
  /\ disk \in [Users -> Configs \cup {NoConfig}]
  /\ lastSyncAt \in {NoTime} \cup 0..MaxTime
  /\ syncFailures \in 0..MaxSyncFailures
  /\ cloudBackendUrl \in BOOLEAN
  /\ now \in 0..MaxTime
  /\ IsABag(calls) /\ BagCardinality(calls) <= MaxCalls
  /\ DOMAIN reqs = 1..MaxReqs
  /\ synced \in [Users -> Statuses \cup {"none"}]
  /\ service.syncTimer \in [delay : Int, pending : BOOLEAN]
  /\ service.lastSyncTimestamp \in SyncTimestamps \cup {NoTimestamp}
  /\ service.consecutiveFailures \in 0..MaxSyncFailures
  /\ service.currentRetryDelay \in InitialRetryDelayMs..MaxRetryDelayMs
  /\ service.isRunning \in BOOLEAN
  /\ service.isSyncing \in BOOLEAN
  /\ IsABag(service.syncs) /\ BagCardinality(service.syncs) <= MaxCalls
  /\ cleanupTimer \in [handle : 0..MaxTimers, intervals : SUBSET (1..MaxTimers)]
  /\ \A f \in Filenames : files.begun[f] \in 0..MaxWrites

---------------------------------------------------------------------------
(* Construction: new MultiTenantGatewayManager(options).  Init is a manager *)
(* on an empty data directory; InitProvisioned is a manager started on a   *)
(* data directory in which an earlier run stored a config for every tenant.*)

\* options of the sync service under analysis
\* new ConfigSyncService(manager, options); syncs holds the doSync calls
\* that have passed the isSyncing test and not yet returned
NewConfigSyncService ==
  [syncTimer |-> NoTimer,
   lastSyncTimestamp |-> NoTimestamp,
   consecutiveFailures |-> 0,
   currentRetryDelay |-> InitialRetryDelayMs,
   isRunning |-> FALSE,
   isSyncing |-> FALSE,
   syncs |-> EmptyBag,
   lastSuccess |-> NoTimestamp,
   lastResult |-> NoSyncResult]

\* no batch has been recorded
NothingApplied ==
  [phase |-> "first", batch |-> <<>>, rest |-> <<>>, same |-> TRUE,
   replays |-> 0, snapshot |-> "none"]

InitManager ==
  /\ userInstances = <<>>
  /\ tokenToUserId = [t \in Tokens |-> NoUser]
  /\ workspaceResolvers = {}
  /\ lastSyncAt = NoTime
  /\ syncFailures = 0
  /\ cloudBackendUrl = TRUE
  /\ now = 0
  /\ calls = EmptyBag
  /\ reqs = [s \in 1..MaxReqs |-> NoUser]
  /\ contexts = {}
  /\ synced = [u \in Users |-> "none"]
  /\ service = NewConfigSyncService
  /\ applied = NothingApplied
  /\ cleanupTimer = NoCleanupTimer
  /\ lastOp = Op("new", NoUser, NoUser)
  /\ emitted = <<>>

Init ==
  /\ InitManager
  /\ disk = [u \in Users |-> NoConfig]
  /\ files = NoWorkspace

InitProvisioned ==
  /\ InitManager
  /\ disk = [u \in Users |-> "c1"]
  /\ files = NoWorkspace

\* a manager on a provisioned data directory that has loaded tenant "a" and
\* is running one wrapped request for it
InitServing ==
  /\ userInstances = <<[userId |-> <<"a">>, config |-> "c1", status |-> "active",
                        llmApiKey |-> "undefined", lastActivityAt |-> 0,
                        pendingRequests |-> 1]>>
  /\ tokenToUserId = [t \in Tokens |-> NoUser]
  /\ workspaceResolvers = {<<"a">>}
  /\ lastSyncAt = NoTime
  /\ syncFailures = 0
  /\ cloudBackendUrl = TRUE
  /\ now = 0
  /\ calls = EmptyBag
  /\ reqs = [s \in 1..MaxReqs |-> IF s = 1 THEN <<"a">> ELSE NoUser]
  /\ contexts = {<<"a">>}
  /\ synced = [u \in Users |-> "none"]
  /\ service = NewConfigSyncService
  /\ applied = NothingApplied
  /\ cleanupTimer = NoCleanupTimer
  /\ lastOp = Op("wrapEnter", <<"a">>, "incremented")
  /\ emitted = <<>>
  /\ disk = [u \in Users |-> "c1"]
  /\ files = NoWorkspace

---------------------------------------------------------------------------
(* Date.now() advances *)

Tick ==
  /\ now < MaxTime
  /\ now' = now + 1
  /\ lastOp' = Op("tick", NoUser, NoUser)
  /\ emitted' = <<>>
  /\ UNCHANGED <<userInstances, tokenToUserId, workspaceResolvers, disk,
                 lastSyncAt, syncFailures, cloudBackendUrl, calls, reqs,
                 contexts, synced,
                 service, applied, cleanupTimer, files>>

---------------------------------------------------------------------------
(* incrementPendingRequests / decrementPendingRequests *)

incrementPendingRequests(insts, userId) ==
  IF Has(insts, sanitizeUserId(userId))
  THEN MapSet(insts,
         [Get(insts, sanitizeUserId(userId)) EXCEPT
            !.pendingRequests = @ + 1, !.lastActivityAt = now])
  ELSE insts

DecrementUnguarded(insts, userId) ==
  IF Has(insts, sanitizeUserId(userId))
  THEN MapSet(insts,
         [Get(insts, sanitizeUserId(userId)) EXCEPT
            !.pendingRequests = @ - 1, !.lastActivityAt = now])
  ELSE insts

decrementPendingRequests(insts, userId) ==
  IF /\ Has(insts, sanitizeUserId(userId))
     /\ Get(insts, sanitizeUserId(userId)).pendingRequests > 0
  THEN MapSet(insts,
         [Get(insts, sanitizeUserId(userId)) EXCEPT
            !.pendingRequests = @ - 1, !.lastActivityAt = now])
  ELSE insts

---------------------------------------------------------------------------
(* wrapWithPendingRequests(context, fn): entry (increment, then fn starts) *)
(* and exit (fn settles, the finally block decrements)                     *)

WrapEnter(r, userId) ==
  /\ reqs[r] = NoUser
  /\ \A q \in 1..MaxReqs : q < r => reqs[q] # NoUser
  /\ userId \in contexts
  /\ userInstances' = incrementPendingRequests(userInstances, userId)
  /\ reqs' = [reqs EXCEPT ![r] = userId]
  /\ lastOp' = Op("wrapEnter", userId,
                  IF Has(userInstances, sanitizeUserId(userId))
                  THEN "incremented" ELSE "absent")
  /\ emitted' = <<>>
  /\ UNCHANGED <<tokenToUserId, workspaceResolvers, disk, lastSyncAt,
                 syncFailures, cloudBackendUrl, now, calls, contexts, synced,
                 service, applied, cleanupTimer, files>>

WrapExit(r) ==
  /\ reqs[r] # NoUser
  /\ userInstances' = decrementPendingRequests(userInstances, reqs[r])
  /\ reqs' = [reqs EXCEPT ![r] = NoUser]
  /\ lastOp' = Op("wrapExit", reqs[r],
                  IF userInstances' # userInstances THEN "decremented" ELSE "unchanged")
  /\ emitted' = <<>>
  /\ UNCHANGED <<tokenToUserId, workspaceResolvers, disk, lastSyncAt,
                 syncFailures, cloudBackendUrl, now, calls, contexts, synced,
                 service, applied, cleanupTimer, files>>

---------------------------------------------------------------------------
(* Eviction *)

EvictEvents(insts, ids, reason) ==
  LET hit == SelectSeq(insts, LAMBDA x : x.userId \in ids)
  IN  [i \in 1..Len(hit) |-> Event("user-evicted", hit[i].userId, reason)]

\* an idle test that does not look at the pending requests
IdleIgnoringPending(inst) == now - inst.lastActivityAt > UserIdleTimeoutMs

IdleExpired(inst) ==
  /\ ~(inst.pendingRequests > 0)
  /\ now - inst.lastActivityAt > UserIdleTimeoutMs

IdleVictims(insts) ==
  { insts[i].userId : i \in { j \in 1..Len(insts) : IdleExpired(insts[j]) } }

\* a comparison that lets a later instance of the same age win
OlderOrSame(activity, oldestActivity) == activity <= oldestActivity

\* instance.lastActivityAt < oldestActivity
Older(activity, oldestActivity) == activity < oldestActivity

\* the scan of the LRU pass from instance i on; oldest is the index of
\* oldestUserId, 0 while it is null (oldestActivity = Infinity)
RECURSIVE ScanOldest(_, _, _)
ScanOldest(insts, i, oldest) ==
  IF i > Len(insts) THEN oldest
  ELSE IF insts[i].pendingRequests > 0 THEN ScanOldest(insts, i + 1, oldest)
  ELSE IF oldest = 0
          \/ Older(insts[i].lastActivityAt, insts[oldest].lastActivityAt)
  THEN ScanOldest(insts, i + 1, i)
  ELSE ScanOldest(insts, i + 1, oldest)

\* index of the oldest instance without pending requests, 0 when there is none
OldestIdle(insts) == ScanOldest(insts, 1, 0)

\* an LRU pass that tolerates one instance above the limit
LruOffByOne(insts) ==
  IF Len(insts) > MaxCachedUsers + 1 /\ OldestIdle(insts) # 0
  THEN <<insts[OldestIdle(insts)].userId>>
  ELSE <<>>

RECURSIVE LruVictims(_)
LruVictims(insts) ==
  IF Len(insts) > MaxCachedUsers /\ OldestIdle(insts) # 0
  THEN <<insts[OldestIdle(insts)].userId>>
         \o LruVictims(MapDelete(insts, insts[OldestIdle(insts)].userId))
  ELSE <<>>

SeqRange(s) == { s[i] : i \in 1..Len(s) }

\* the two passes of cleanupInactiveUsers, given the victims of the idle pass
\* and the LRU loop of the manager's options
CleanupPasses(idle, Lru(_)) ==
  LET afterIdle == SelectSeq(userInstances, LAMBDA x : x.userId \notin idle)
      lru == Lru(afterIdle)
  IN  /\ userInstances' = SelectSeq(afterIdle, LAMBDA x : x.userId \notin SeqRange(lru))
      /\ workspaceResolvers' = (workspaceResolvers \ idle) \ SeqRange(lru)
      /\ emitted' = EvictEvents(userInstances, idle, "idle")
                      \o [i \in 1..Len(lru) |-> Event("user-evicted", lru[i], "lru")]
      /\ lastOp' = Op("cleanupInactiveUsers", NoUser, NoUser)
      /\ UNCHANGED <<tokenToUserId, disk, lastSyncAt, syncFailures,
                     cloudBackendUrl, now, calls, reqs, contexts, synced,
                 service, applied, cleanupTimer, files>>

cleanupInactiveUsers == CleanupPasses(IdleVictims(userInstances), LruVictims)

\* a manual eviction that goes through maybeEvictUser
ForceMaybeEvictUser(userId) ==
  IF SanitizeThrows(userId)
  THEN /\ lastOp' = Op("forceEvictUser", userId, "throw")
       /\ emitted' = <<>>
       /\ UNCHANGED <<userInstances, workspaceResolvers>>
  ELSE IF ~Has(userInstances, sanitizeUserId(userId))
  THEN /\ lastOp' = Op("forceEvictUser", userId, "false")
       /\ emitted' = <<>>
       /\ UNCHANGED <<userInstances, workspaceResolvers>>
  ELSE IF Get(userInstances, sanitizeUserId(userId)).pendingRequests > 0
  THEN /\ lastOp' = Op("forceEvictUser", userId, "true")
       /\ emitted' = <<>>
       /\ UNCHANGED <<userInstances, workspaceResolvers>>
  ELSE /\ userInstances' = MapDelete(userInstances, sanitizeUserId(userId))
       /\ workspaceResolvers' = workspaceResolvers \ {sanitizeUserId(userId)}
       /\ lastOp' = Op("forceEvictUser", userId, "true")
       /\ emitted' = <<Event("user-evicted", sanitizeUserId(userId), "manual")>>

forceEvictUser(userId) ==
  IF SanitizeThrows(userId)
  THEN /\ lastOp' = Op("forceEvictUser", userId, "throw")
       /\ emitted' = <<>>
       /\ UNCHANGED <<userInstances, workspaceResolvers>>
  ELSE IF ~Has(userInstances, sanitizeUserId(userId))
  THEN /\ lastOp' = Op("forceEvictUser", userId, "false")
       /\ emitted' = <<>>
       /\ UNCHANGED <<userInstances, workspaceResolvers>>
  ELSE /\ userInstances' = MapDelete(userInstances, sanitizeUserId(userId))
       /\ workspaceResolvers' = workspaceResolvers \ {sanitizeUserId(userId)}
       /\ lastOp' = Op("forceEvictUser", userId, "true")
       /\ emitted' = <<Event("user-evicted", sanitizeUserId(userId), "manual")>>

ForceEvict(userId) ==
  /\ forceEvictUser(userId)
  /\ UNCHANGED <<tokenToUserId, disk, lastSyncAt, syncFailures,
                 cloudBackendUrl, now, calls, reqs, contexts, synced,
                 service, applied, cleanupTimer, files>>

---------------------------------------------------------------------------
(* initializeUserInstance, after its await of ensureUserDirectories *)

UserInstance(userId, config, status, llmApiKey) ==
  [userId |-> userId, config |-> config, status |-> status,
   llmApiKey |-> llmApiKey, lastActivityAt |-> now, pendingRequests |-> 0]

initializeUserInstance(userId, config, status, llmApiKey) ==
  /\ userInstances' = MapSet(userInstances, UserInstance(userId, config, status, llmApiKey))
  /\ workspaceResolvers' = workspaceResolvers \cup {userId}
  /\ emitted' = <<Event("user-loaded", userId, "")>>

---------------------------------------------------------------------------
(* authenticateToken(token) *)

\* a local check that takes an expired instance for a usable one
AuthLocalIgnoringExpired(token) ==
  LET cachedUserId == tokenToUserId[token]
  IN  IF Truthy(cachedUserId) /\ Has(userInstances, cachedUserId)
      THEN IF Get(userInstances, cachedUserId).status = "suspended"
           THEN "suspended" ELSE "hit"
      ELSE IF ~cloudBackendUrl THEN "nourl" ELSE "fetch"

\* the part of authenticateToken that runs before its first await
AuthLocal(token) ==
  LET cachedUserId == tokenToUserId[token]
  IN  IF Truthy(cachedUserId) /\ Has(userInstances, cachedUserId)
      THEN CASE Get(userInstances, cachedUserId).status = "suspended" -> "suspended"
             [] Get(userInstances, cachedUserId).status = "expired" -> "expired"
             [] OTHER -> "hit"
      ELSE IF ~cloudBackendUrl THEN "nourl" ELSE "fetch"

AuthLocalResult(token) ==
  IF AuthLocal(token) = "hit" THEN tokenToUserId[token] ELSE NoUser

AuthLocalEvents(token) ==
  CASE AuthLocal(token) = "suspended" ->
         <<Event("user-suspended", tokenToUserId[token], "")>>
    [] AuthLocal(token) = "expired" ->
         <<Event("user-expired", tokenToUserId[token], "")>>
    [] OTHER -> <<>>

AuthBegin(token) ==
  /\ emitted' = AuthLocalEvents(token)
  /\ IF AuthLocal(token) = "fetch"
     THEN /\ CanStart
          /\ calls' = Started([kind |-> "auth", pc |-> "fetch", token |-> token])
     ELSE UNCHANGED calls
  /\ UNCHANGED <<userInstances, tokenToUserId, workspaceResolvers, disk,
                 lastSyncAt, syncFailures, cloudBackendUrl, now, reqs, contexts, synced,
                 service, applied, cleanupTimer, files>>

AuthPromise(token) ==
  Promise(AuthLocal(token) # "fetch", AuthLocalResult(token))

authenticateToken(token) ==
  /\ AuthBegin(token)
  /\ lastOp' = Op("authenticateToken", token, AuthPromise(token))

\* how a call that went to the cloud backend ended: the user id it resolved
\* to (NoUser for null) and the status the verify response carried
AuthDone(userId, verified) == [userId |-> userId, verified |-> verified]

VerifyResponses ==
  {[kind |-> "401"], [kind |-> "http_error"], [kind |-> "throw"]}
    \cup [kind : {"ok"}, user_id : RawUserIds \cup {NoUser},
          status : Statuses, openclaw_config : Configs]

\* the fetch of verify-token settles and the rest of the try block runs up
\* to the await of initializeUserInstance; the call then remembers what the
\* token was mapped to before (priorUserId, history)
AuthVerified(c, resp) ==
  /\ c \in InFlight
  /\ c.kind = "auth" /\ c.pc = "fetch"
  /\ resp \in VerifyResponses
  /\ IF resp.kind # "ok" \/ ~Truthy(resp.user_id) \/ SanitizeThrows(resp.user_id)
     THEN /\ calls' = Finished(c)
          /\ lastOp' = Op("authenticateTokenDone", c.token, AuthDone(NoUser, "none"))
          /\ UNCHANGED tokenToUserId
     ELSE /\ tokenToUserId' = [tokenToUserId EXCEPT
                                 ![c.token] = sanitizeUserId(resp.user_id)]
          /\ IF ~Has(userInstances, sanitizeUserId(resp.user_id))
             THEN /\ calls' = Resumed(c, [kind |-> "auth", pc |-> "init",
                                  token |-> c.token,
                                  priorUserId |-> tokenToUserId[c.token],
                                  userId |-> sanitizeUserId(resp.user_id),
                                  config |-> resp.openclaw_config,
                                  status |-> resp.status])
                  /\ lastOp' = Op("verified", c.token, NoUser)
             ELSE /\ calls' = Finished(c)
                  /\ lastOp' = Op("authenticateTokenDone", c.token,
                                  AuthDone(sanitizeUserId(resp.user_id), resp.status))
  /\ emitted' = <<>>
  /\ UNCHANGED <<userInstances, workspaceResolvers, disk, lastSyncAt,
                 syncFailures, cloudBackendUrl, now, reqs, contexts, synced,
                 service, applied, cleanupTimer, files>>

\* ensureUserDirectories settles inside initializeUserInstance
AuthInitialized(c, dirsOk) ==
  /\ c \in InFlight
  /\ c.kind = "auth" /\ c.pc = "init"
  /\ IF dirsOk
     THEN /\ initializeUserInstance(c.userId, c.config,
                                    c.status, "undefined")
          /\ lastOp' = Op("authenticateTokenDone", c.token,
                          AuthDone(c.userId, c.status))
     ELSE /\ lastOp' = Op("authenticateTokenDone", c.token,
                          AuthDone(NoUser, c.status))
          /\ emitted' = <<>>
          /\ UNCHANGED <<userInstances, workspaceResolvers>>
  /\ calls' = Finished(c)
  /\ UNCHANGED <<tokenToUserId, disk, lastSyncAt, syncFailures,
                 cloudBackendUrl, now, reqs, contexts, synced,
                 service, applied, cleanupTimer, files>>

---------------------------------------------------------------------------
(* authorizeGatewayConnectMultiTenant *)

AuthResult(ok, method, reason, userId) ==
  [ok |-> ok, method |-> method, reason |-> reason, userId |-> userId]

\* the connect payload carries gatewayToken and a manager is configured:
\* authenticateToken is called and its return value is tested as it is
authorizeMultiTenant(gatewayToken) ==
  /\ AuthBegin(gatewayToken)
  /\ lastOp' = Op("authorizeGatewayConnectMultiTenant",
                  [gatewayToken |-> gatewayToken,
                   authenticated |-> AuthPromise(gatewayToken)],
                  IF PromiseTruthy(AuthPromise(gatewayToken))
                  THEN AuthResult(TRUE, "gateway-token", "", AuthPromise(gatewayToken))
                  ELSE AuthResult(FALSE, "", "gateway_token_invalid", "undefined"))

\* no manager or no gateway token: the result of authorizeGatewayConnect
authorizeStandard(gatewayToken, standardOk) ==
  /\ lastOp' = Op("authorizeGatewayConnectMultiTenant",
                  [gatewayToken |-> gatewayToken, authenticated |-> "none"],
                  AuthResult(standardOk, "standard", "", "undefined"))
  /\ emitted' = <<>>
  /\ UNCHANGED <<userInstances, tokenToUserId, workspaceResolvers, disk,
                 lastSyncAt, syncFailures, cloudBackendUrl, now, calls, reqs,
                 contexts, synced,
                 service, applied, cleanupTimer, files>>

authorizeGatewayConnectMultiTenant(multiTenantManager, gatewayToken, standardOk) ==
  IF multiTenantManager /\ gatewayToken # NoToken
  THEN authorizeMultiTenant(gatewayToken)
  ELSE authorizeStandard(gatewayToken, standardOk)

---------------------------------------------------------------------------
(* getUserInstance(userId) *)

\* resolve is TRUE when the caller is resolveMultiTenantContext, which keeps
\* the instance it gets in a MultiTenantAgentContext
getUserInstance(userId, resolve) ==
  /\ IF SanitizeThrows(userId)
     THEN /\ lastOp' = Op("getUserInstance", userId, "throw")
          /\ UNCHANGED <<userInstances, calls, contexts>>
     ELSE IF Has(userInstances, sanitizeUserId(userId))
     THEN /\ userInstances' = MapSet(userInstances,
                [Get(userInstances, sanitizeUserId(userId)) EXCEPT
                   !.lastActivityAt = now])
          /\ contexts' = IF resolve THEN contexts \cup {userId} ELSE contexts
          /\ lastOp' = Op("getUserInstance", userId, "hit")
          /\ UNCHANGED calls
     ELSE /\ CanStart
          /\ calls' = Started([kind |-> "get", pc |-> "read", userId |-> userId,
                               resolve |-> resolve])
          /\ lastOp' = Op("getUserInstance", userId, "miss")
          /\ UNCHANGED <<userInstances, contexts>>
  /\ emitted' = <<>>
  /\ UNCHANGED <<tokenToUserId, workspaceResolvers, disk, lastSyncAt,
                 syncFailures, cloudBackendUrl, now, reqs, synced,
                 service, applied, cleanupTimer, files>>

\* readUserConfig settles: a config, null (no file) or an I/O error
GetConfigRead(c, readOk) ==
  /\ c \in InFlight
  /\ c.kind = "get" /\ c.pc = "read"
  /\ IF ~readOk
     THEN /\ calls' = Finished(c)
          /\ lastOp' = Op("getUserInstanceDone", c.userId, "throw")
     ELSE IF disk[sanitizeUserId(c.userId)] = NoConfig
     THEN /\ calls' = Finished(c)
          /\ lastOp' = Op("getUserInstanceDone", c.userId, "null")
     ELSE /\ calls' = Resumed(c, [kind |-> "get", pc |-> "init", userId |-> c.userId,
                          resolve |-> c.resolve,
                          config |-> disk[sanitizeUserId(c.userId)]])
          /\ lastOp' = Op("configRead", c.userId,
                          disk[sanitizeUserId(c.userId)])
  /\ emitted' = <<>>
  /\ UNCHANGED <<userInstances, tokenToUserId, workspaceResolvers, disk,
                 lastSyncAt, syncFailures, cloudBackendUrl, now, reqs, contexts, synced,
                 service, applied, cleanupTimer, files>>

GetInitialized(c, dirsOk) ==
  /\ c \in InFlight
  /\ c.kind = "get" /\ c.pc = "init"
  /\ IF dirsOk
     THEN /\ initializeUserInstance(sanitizeUserId(c.userId),
                                    c.config, "active", "undefined")
          /\ contexts' = IF c.resolve THEN contexts \cup {c.userId}
                                                ELSE contexts
          /\ lastOp' = Op("getUserInstanceDone", c.userId, "loaded")
     ELSE /\ lastOp' = Op("getUserInstanceDone", c.userId, "throw")
          /\ emitted' = <<>>
          /\ UNCHANGED <<userInstances, workspaceResolvers, contexts>>
  /\ calls' = Finished(c)
  /\ UNCHANGED <<tokenToUserId, disk, lastSyncAt, syncFailures,
                 cloudBackendUrl, now, reqs, synced,
                 service, applied, cleanupTimer, files>>

---------------------------------------------------------------------------
(* updateUserConfigs(configs) *)

\* The records a sync delivers in these runs: tenant "a", whose config and
\* status change over time, tenant "b/" and a record with an unusable id.
\* They all carry the gateway token "t1", so the token moves between tenants.
CloudUserConfigs ==
  [userId : {<<"a">>}, gatewayToken : {"t1"}, openclawConfig : Configs,
   status : {"active", "suspended"}, llmApiKey : {"k1"}]
  \cup [userId : {<<"b", "/">>, <<"/">>}, gatewayToken : {"t1"},
        openclawConfig : {"c1"}, status : {"active"}, llmApiKey : {"k1"}]

NoCloudConfig == [userId |-> NoUser]

UpdateInFlight == \E c \in InFlight : c.kind = "update"

\* what the loop did with the record it has just finished: nothing yet
\* (the batch starts), or writeUserConfig settled for it
NoRecord == "none"

Settled(writeOk) == IF writeOk THEN "written" ELSE "failed"

\* an end of the batch that clears lastSyncAt when no record was applied
UpdateFinishIfUpdated(c, prev) ==
  /\ lastSyncAt' = IF c.updated > 0 THEN now ELSE NoTime
  /\ syncFailures' = 0
  /\ emitted' = <<[type |-> "config-synced", usersUpdated |-> c.updated,
                   timestamp |-> now]>>
  /\ lastOp' = Op("updateUserConfigsDone",
                  [remaining |-> c.remaining, written |-> c.written, prev |-> prev],
                  c.updated)

\* the end of the batch, after the for loop
UpdateFinish(c, prev) ==
  /\ lastSyncAt' = now
  /\ syncFailures' = 0
  /\ emitted' = <<[type |-> "config-synced", usersUpdated |-> c.updated,
                   timestamp |-> now]>>
  /\ lastOp' = Op("updateUserConfigsDone",
                  [remaining |-> c.remaining, written |-> c.written, prev |-> prev],
                  c.updated)

\* a token index that keeps the first owner of a token
SetTokenIfAbsent(index, token, userId) ==
  IF index[token] = NoUser THEN [index EXCEPT ![token] = userId] ELSE index

\* this.tokenToUserId.set(token, userId)
SetToken(index, token, userId) == [index EXCEPT ![token] = userId]

\* The for loop from the record after the one that has just settled up to
\* its next await: `skipped` records whose user id sanitizeUserId rejects
\* are caught and logged, then either the batch ends or cloudConfig gets its
\* token mapped and writeUserConfig is awaited.  inFlight is the bag of the
\* other calls; c.written counts the records whose write has succeeded.
UpdateLoop(inFlight, c, prev, skipped, cloudConfig) ==
  /\ skipped \in 0..c.remaining
  /\ IF skipped = c.remaining
     THEN /\ UpdateFinish([c EXCEPT !.remaining = @ - skipped], prev)
          /\ calls' = inFlight
          /\ UNCHANGED tokenToUserId
     ELSE /\ ~SanitizeThrows(cloudConfig.userId)
          /\ tokenToUserId' = SetToken(tokenToUserId, cloudConfig.gatewayToken,
                                       sanitizeUserId(cloudConfig.userId))
          /\ calls' = inFlight (+) SetToBag({
                         [kind |-> "update", pc |-> "write",
                          cloudConfig |-> cloudConfig,
                          priorUserId |-> tokenToUserId[cloudConfig.gatewayToken],
                          remaining |-> c.remaining - skipped - 1,
                          updated |-> c.updated,
                          written |-> c.written]})
          /\ lastOp' = Op("updateRecord", [prev |-> prev], NoUser)
          /\ emitted' = <<>>
          /\ UNCHANGED <<lastSyncAt, syncFailures>>

updateUserConfigs(total, skipped, cloudConfig) ==
  /\ ~UpdateInFlight
  /\ CanStart
  /\ total \in 0..MaxBatch
  /\ UpdateLoop(calls, [remaining |-> total, updated |-> 0, written |-> 0],
                NoRecord, skipped, cloudConfig)
  /\ UNCHANGED <<userInstances, workspaceResolvers, disk, cloudBackendUrl, now,
                 reqs, contexts, synced>>

\* the in-memory patch of the cached instance
PatchInstance(insts, userId, cloudConfig) ==
  IF Has(insts, userId)
  THEN MapSet(insts, [Get(insts, userId) EXCEPT
                        !.config = cloudConfig.openclawConfig,
                        !.status = cloudConfig.status,
                        !.llmApiKey = cloudConfig.llmApiKey])
  ELSE insts

\* counting a record before it is known to have been written
CountAlways(updated, writeOk) == updated + 1

\* updated++ is reached only when writeUserConfig did not throw
CountUpdated(updated, writeOk) == IF writeOk THEN updated + 1 ELSE updated

\* writeUserConfig settles for the current record; the loop goes on
UpdateWritten(c, writeOk, skipped, cloudConfig) ==
  /\ c \in InFlight
  /\ c.kind = "update" /\ c.pc = "write"
  /\ LET cur == c.cloudConfig
         userId == sanitizeUserId(cur.userId)
     IN  IF writeOk
         THEN /\ disk' = [disk EXCEPT ![userId] = cur.openclawConfig]
              /\ userInstances' = PatchInstance(userInstances, userId, cur)
              /\ synced' = [synced EXCEPT ![userId] = cur.status]
         ELSE UNCHANGED <<disk, userInstances, synced>>
  /\ UpdateLoop(Finished(c),
                [remaining |-> c.remaining,
                 updated |-> CountUpdated(c.updated, writeOk),
                 written |-> IF writeOk THEN c.written + 1 ELSE c.written],
                Settled(writeOk), skipped, cloudConfig)
  /\ UNCHANGED <<workspaceResolvers, cloudBackendUrl, now, reqs, contexts>>

recordSyncFailure ==
  /\ syncFailures < MaxSyncFailures
  /\ syncFailures' = syncFailures + 1
  /\ emitted' = <<[type |-> "sync-failed", consecutiveFailures |-> syncFailures + 1]>>
  /\ lastOp' = Op("recordSyncFailure", NoUser, NoUser)
  /\ UNCHANGED <<userInstances, tokenToUserId, workspaceResolvers, disk,
                 lastSyncAt, cloudBackendUrl, now, calls, reqs, contexts, synced>>

---------------------------------------------------------------------------

(* Specifications.  Every one is built from the actions above; they differ *)
(* in the part of the manager's interface that is driven.                  *)

AuthSteps ==
  \/ \E t \in Tokens : authenticateToken(t)
  \/ \E c \in InFlight, resp \in VerifyResponses : AuthVerified(c, resp)
  \/ \E c \in InFlight, ok \in BOOLEAN : AuthInitialized(c, ok)

GetCompletes ==
  \/ \E c \in InFlight, ok \in BOOLEAN : GetConfigRead(c, ok)
  \/ \E c \in InFlight, ok \in BOOLEAN : GetInitialized(c, ok)

\* getUserInstance called by resolveMultiTenantContext
ResolveSteps ==
  \/ \E u \in RawUserIds : getUserInstance(u, TRUE)
  \/ GetCompletes

\* the records the loop can stop at after `skipped` of `remaining` records:
\* one with an acceptable user id, or none when the batch is exhausted
AcceptedConfigs == { c \in CloudUserConfigs : ~SanitizeThrows(c.userId) }

NextRecords(remaining, skipped) ==
  IF skipped = remaining THEN {NoCloudConfig} ELSE AcceptedConfigs

\* updateUserConfigs called on its own, without the sync service
UpdateSteps ==
  \/ \E n \in 0..MaxBatch, k \in 0..MaxBatch :
       \E c \in NextRecords(n, k) :
         updateUserConfigs(n, k, c) /\ UNCHANGED <<service, applied, cleanupTimer, files>>
  \/ \E c \in InFlight, ok \in BOOLEAN, k \in 0..MaxBatch :
       /\ c.kind = "update"
       /\ \E r \in NextRecords(c.remaining, k) :
            UpdateWritten(c, ok, k, r) /\ UNCHANGED <<service, applied, cleanupTimer, files>>

RequestSteps ==
  \/ \E r \in 1..MaxReqs, u \in RawUserIds : WrapEnter(r, u)
  \/ \E r \in 1..MaxReqs : WrapExit(r)

EvictSteps ==
  \/ cleanupInactiveUsers
  \/ \E u \in RawUserIds : ForceEvict(u)

\* requests, loading and eviction on a provisioned data directory
NextEvict == Tick \/ RequestSteps \/ EvictSteps \/ ResolveSteps

SpecEvict == InitProvisioned /\ [][NextEvict]_vars

\* token authentication and the connect handshake
NextAuth ==
  \/ AuthSteps
  \/ \E m \in BOOLEAN, t \in Tokens \cup {NoToken}, ok \in BOOLEAN :
       authorizeGatewayConnectMultiTenant(m, t, ok)

SpecAuth == Init /\ [][NextAuth]_vars

LoadInFlight == \E c \in InFlight : c.kind = "get"

\* config sync against loading, one load at a time
NextSync ==
  \/ UpdateSteps
  \/ \E u \in RawUserIds : ~LoadInFlight /\ getUserInstance(u, FALSE)
  \/ GetCompletes

SpecSync == Init /\ [][NextSync]_vars

---------------------------------------------------------------------------
(* updateUserConfigs(configs) called again with the list of an earlier call *)

\* what a batch is compared by: token index, stored configs, and of every
\* cached instance its config, status, llmApiKey and pendingRequests
Snapshot ==
  [tokenToUserId |-> tokenToUserId,
   disk |-> disk,
   instances |-> [i \in 1..Len(userInstances) |->
                    [userId |-> userInstances[i].userId,
                     config |-> userInstances[i].config,
                     status |-> userInstances[i].status,
                     llmApiKey |-> userInstances[i].llmApiKey,
                     pendingRequests |-> userInstances[i].pendingRequests]]]

\* a record of the list whose user id sanitizeUserId rejects
InvalidRecord == CHOOSE c \in CloudUserConfigs : SanitizeThrows(c.userId)

\* the list as it is recorded: every record with the outcome of its write
Invalids(n) == [i \in 1..n |-> [rec |-> InvalidRecord, ok |-> FALSE]]

RECURSIVE LeadingInvalid(_)
LeadingInvalid(entries) ==
  IF Len(entries) > 0 /\ SanitizeThrows(entries[1].rec.userId)
  THEN 1 + LeadingInvalid(Tail(entries))
  ELSE 0

\* the record the loop stops at after the leading rejected ones
FirstAccepted(entries) ==
  IF LeadingInvalid(entries) = Len(entries) THEN NoCloudConfig
  ELSE entries[LeadingInvalid(entries) + 1].rec

Recorded(batch) ==
  [phase |-> "replay", batch |-> batch, rest |-> <<>>, same |-> TRUE,
   replays |-> 0, snapshot |-> Snapshot']

\* the first call: any list, recorded as it is processed
FirstStart(total, skipped, cloudConfig) ==
  /\ applied.phase = "first"
  /\ updateUserConfigs(total, skipped, cloudConfig)
  /\ applied' = IF skipped = total THEN Recorded(Invalids(skipped))
                ELSE [applied EXCEPT !.batch = Invalids(skipped)]
  /\ UNCHANGED <<service, cleanupTimer, files>>

FirstWritten(c, writeOk, skipped, cloudConfig) ==
  /\ applied.phase = "first"
  /\ UpdateWritten(c, writeOk, skipped, cloudConfig)
  /\ LET batch == applied.batch \o <<[rec |-> c.cloudConfig, ok |-> writeOk]>>
                     \o Invalids(skipped)
     IN  applied' = IF skipped = c.remaining THEN Recorded(batch)
                    ELSE [applied EXCEPT !.batch = batch]
  /\ UNCHANGED <<service, cleanupTimer, files>>

\* a later call with the recorded list
ReplayStart ==
  /\ applied.phase = "replay"
  /\ updateUserConfigs(Len(applied.batch), LeadingInvalid(applied.batch),
                       FirstAccepted(applied.batch))
  /\ applied' = [applied EXCEPT
                   !.rest = SubSeq(applied.batch, LeadingInvalid(applied.batch) + 1,
                                   Len(applied.batch)),
                   !.replays = IF LeadingInvalid(applied.batch) = Len(applied.batch)
                               THEN 1 ELSE @]
  /\ UNCHANGED <<service, cleanupTimer, files>>

\* writeUserConfig settles in a later call; same tells whether every write
\* so far settled as it did in the first call
ReplayWritten(c, writeOk) ==
  /\ applied.phase = "replay"
  /\ Len(applied.rest) > 0
  /\ UpdateWritten(c, writeOk, LeadingInvalid(Tail(applied.rest)),
                   FirstAccepted(Tail(applied.rest)))
  /\ applied' = [applied EXCEPT
                   !.rest = SubSeq(Tail(applied.rest),
                                   LeadingInvalid(Tail(applied.rest)) + 1,
                                   Len(Tail(applied.rest))),
                   !.same = @ /\ (writeOk = Head(applied.rest).ok),
                   !.replays = IF LeadingInvalid(Tail(applied.rest))
                                    = Len(Tail(applied.rest))
                               THEN 1 ELSE @]
  /\ UNCHANGED <<service, cleanupTimer, files>>

NextTwice ==
  \/ Tick
  \/ \E n \in 0..MaxBatch, k \in 0..MaxBatch :
       \E c \in NextRecords(n, k) : FirstStart(n, k, c)
  \/ \E c \in InFlight, ok \in BOOLEAN, k \in 0..MaxBatch :
       /\ c.kind = "update"
       /\ \E r \in NextRecords(c.remaining, k) : FirstWritten(c, ok, k, r)
  \/ ReplayStart
  \/ \E c \in InFlight, ok \in BOOLEAN : c.kind = "update" /\ ReplayWritten(c, ok)

\* a list of records applied to a serving manager, then applied again
SpecTwice == InitServing /\ [][NextTwice]_vars

\* the sync service alone: batches, failed fetches and the clock
NextBatch ==
  \/ Tick
  \/ UpdateSteps
  \/ recordSyncFailure /\ UNCHANGED <<service, applied, cleanupTimer, files>>

SpecBatch == Init /\ [][NextBatch]_vars

---------------------------------------------------------------------------
(* authenticateToken for one tenant over time *)

\* verify answers about tenant "a", in any status, and the answers that
\* carry no usable record
LoginResponses ==
  { r \in VerifyResponses :
      r.kind = "ok" => /\ r.user_id \in {<<"a">>, <<"/">>, NoUser}
                       /\ r.openclaw_config = "c1" }

NextLogin ==
  \/ Tick
  \/ \E t \in Tokens : authenticateToken(t)
  \/ \E c \in InFlight, resp \in LoginResponses : AuthVerified(c, resp)
  \/ \E c \in InFlight, ok \in BOOLEAN : AuthInitialized(c, ok)

SpecLogin == Init /\ [][NextLogin]_vars

\* everything that touches lastActivityAt: authentication, loading and
\* wrapped requests, on a provisioned data directory
NextActivity == NextLogin \/ ResolveSteps \/ RequestSteps

SpecActivity == InitProvisioned /\ [][NextActivity]_vars

---------------------------------------------------------------------------
(* extractGatewayToken(req), buildConnectAuthFromRequest(req, existingAuth) *)

\* a JavaScript value that is a string or undefined / null; strings are
\* sequences of characters
Undefined == [defined |-> FALSE, value |-> <<>>]
Str(chars) == [defined |-> TRUE, value |-> chars]

\* header and payload texts: empty, blank, two tokens, a padded token
Texts == { <<>>, <<" ">>, <<"t">>, <<"u">>, <<" ", "t", " ">> }
StringOrUndefined == {Undefined} \cup { Str(t) : t \in Texts }

RECURSIVE TrimStart(_)
TrimStart(chars) ==
  IF Len(chars) > 0 /\ Head(chars) = " " THEN TrimStart(Tail(chars)) ELSE chars

RECURSIVE TrimEnd(_)
TrimEnd(chars) ==
  IF Len(chars) > 0 /\ chars[Len(chars)] = " "
  THEN TrimEnd(SubSeq(chars, 1, Len(chars) - 1))
  ELSE chars

\* String.prototype.trim
Trim(chars) == TrimEnd(TrimStart(chars))

\* req: the x-gateway-token header, the authorization header as its scheme
\* and what follows the scheme and the white space after it, and the
\* gateway_token query parameter
Requests ==
  [xGatewayToken : StringOrUndefined,
   authorization : {Undefined} \cup
                   { Str(<<sch>> \o t) : sch \in {"Bearer", "Basic"},
                                         t \in Texts \ {<<" ", "t", " ">>} },
   query : {Undefined, Str(<<"u">>)}]

\* authHeader.match(/^Bearer\s+(.+)$/i): group 1, or undefined without match
BearerMatch(authHeader) ==
  IF /\ authHeader.defined
     /\ Head(authHeader.value) = "Bearer"
     /\ Len(authHeader.value) > 1
  THEN Str(Tail(authHeader.value))
  ELSE Undefined

extractGatewayToken(req) ==
  IF req.xGatewayToken.defined /\ Trim(req.xGatewayToken.value) # <<>>
  THEN Str(Trim(req.xGatewayToken.value))
  ELSE IF BearerMatch(req.authorization).defined
  THEN Str(Trim(BearerMatch(req.authorization).value))
  ELSE IF req.query.defined /\ req.query.value # <<>>
  THEN Str(Trim(req.query.value))
  ELSE Undefined

\* gatewayToken ?? existingAuth?.gatewayToken
buildConnectAuthFromRequest(req, existingAuth) ==
  IF extractGatewayToken(req).defined THEN extractGatewayToken(req)
  ELSE existingAuth

\* the upgrade request of a connection is turned into its ConnectAuth
BuildConnectAuth(req, existingAuth) ==
  /\ lastOp' = Op("buildConnectAuthFromRequest",
                  [req |-> req, existingAuth |-> existingAuth],
                  buildConnectAuthFromRequest(req, existingAuth))
  /\ emitted' = <<>>
  /\ UNCHANGED <<userInstances, tokenToUserId, workspaceResolvers, disk,
                 lastSyncAt, syncFailures, cloudBackendUrl, now, calls, reqs,
                 contexts, synced, service, applied, cleanupTimer, files>>

NextConnect ==
  \E req \in Requests, existingAuth \in StringOrUndefined :
    BuildConnectAuth(req, existingAuth)

SpecConnect == Init /\ [][NextConnect]_vars

(***************************************************************************)
(* Tenant paths.                                                           *)
(*                                                                         *)
(* A path is the sequence of its segments below the filesystem root, each  *)
(* segment a sequence of characters.  path.join concatenates its arguments *)
(* with the platform separator and normalizes the result: empty and "."    *)
(* segments are dropped and ".." removes the segment before it.  POSIX     *)
(* splits on "/" only, win32 on "/" and "\".                               *)
(***************************************************************************)
MaxRawLen == 3

PathChars == {"a", ".", "/", "\\"}

Rep(c, n) == [i \in 1..n |-> c]

\* Short ids over PathChars, two traversal attempts, and ids around the
\* length limit.
PathUserIds ==
  UNION { [1..n -> PathChars] : n \in 0..MaxRawLen }
  \cup { <<".", ".", "/", "a">>, <<".", ".", "\\", "@">> }
  \cup { Rep("a", MaxUserIdLen), Rep("a", MaxUserIdLen + 1),
         <<"/">> \o Rep("a", MaxUserIdLen),
         <<".", ".">> \o Rep("a", MaxUserIdLen),
         <<"@">> \o Rep("a", MaxUserIdLen) }

Platforms == {"posix", "win32"}

Separators(platform) == IF platform = "win32" THEN {"/", "\\"} ELSE {"/"}

WorkspaceRoot == << <<"w">> >>
ConfigRoot == << <<"c">> >>
UsersDir == <<"u", "s", "e", "r", "s">>
ConfigFile == <<"c", "o", "n", "f", "i", "g", ".", "j", "s", "o", "n">>
AgentDir == <<"a", "g", "e", "n", "t">>

RECURSIVE Split(_, _)
Split(s, seps) ==
  IF \A i \in 1..Len(s) : s[i] \notin seps THEN <<s>>
  ELSE LET i == CHOOSE k \in 1..Len(s) :
                  s[k] \in seps /\ \A j \in 1..(k - 1) : s[j] \notin seps
       IN  <<SubSeq(s, 1, i - 1)>> \o Split(SubSeq(s, i + 1, Len(s)), seps)

RECURSIVE Normalize(_, _)
Normalize(done, rest) ==
  IF rest = <<>> THEN done
  ELSE LET h == Head(rest)
       IN  IF h = <<>> \/ h = <<".">> THEN Normalize(done, Tail(rest))
           ELSE IF h = <<".", ".">>
                THEN Normalize(IF done = <<>> THEN <<>>
                               ELSE SubSeq(done, 1, Len(done) - 1), Tail(rest))
                ELSE Normalize(Append(done, h), Tail(rest))

\* path.join(base, part) for an absolute, normalized base.
PathJoin(base, part, platform) ==
  Normalize(<<>>, base \o Split(part, Separators(platform)))

\* deployment.md: getUserWorkspacePath(userId), getUserConfigPath(userId).
getUserWorkspacePath(userId, platform) ==
  PathJoin(PathJoin(WorkspaceRoot, UsersDir, platform),
           sanitizeUserId(userId), platform)

getUserConfigPath(userId, platform) ==
  PathJoin(PathJoin(PathJoin(ConfigRoot, UsersDir, platform),
                    sanitizeUserId(userId), platform),
           ConfigFile, platform)

NoPath == <<>>

GetUserPaths(userId, platform) ==
  /\ lastOp' = Op("getUserPaths",
                  [userId |-> userId, platform |-> platform],
                  IF SanitizeThrows(userId)
                  THEN [throws |-> TRUE, sanitized |-> SanitizedOf(userId),
                        workspacePath |-> NoPath, configPath |-> NoPath]
                  ELSE [throws |-> FALSE,
                        sanitized |-> sanitizeUserId(userId),
                        workspacePath |-> getUserWorkspacePath(userId, platform),
                        configPath |-> getUserConfigPath(userId, platform)])
  /\ emitted' = <<>>
  /\ UNCHANGED <<userInstances, tokenToUserId, workspaceResolvers, disk,
                 lastSyncAt, syncFailures, cloudBackendUrl, now, calls, reqs,
                 contexts, synced, service, applied, cleanupTimer, files>>

\* auth.ts: getUserWorkspacePath(workspaceRoot, userId) and
\* getUserAgentPath(workspaceRoot, userId) of the gateway workspace setup.
getUserWorkspacePathIn(workspaceRoot, userId, platform) ==
  PathJoin(PathJoin(workspaceRoot, UsersDir, platform), userId, platform)

getUserAgentPath(workspaceRoot, userId, platform) ==
  PathJoin(getUserWorkspacePathIn(workspaceRoot, userId, platform),
           AgentDir, platform)

\* setupUserWorkspace(opts) with a configured workspaceRoot: the directories
\* are created and { agentDir, workspaceDir } is returned.
setupUserWorkspace(userId, platform) ==
  /\ lastOp' = Op("setupUserWorkspace",
                  [userId |-> userId, platform |-> platform],
                  [agentDir |-> getUserAgentPath(WorkspaceRoot, userId, platform),
                   workspaceDir |->
                     getUserWorkspacePathIn(WorkspaceRoot, userId, platform)])
  /\ emitted' = <<>>
  /\ UNCHANGED <<userInstances, tokenToUserId, workspaceResolvers, disk,
                 lastSyncAt, syncFailures, cloudBackendUrl, now, calls, reqs,
                 contexts, synced, service, applied, cleanupTimer, files>>

NextPaths ==
  \E userId \in PathUserIds, platform \in Platforms :
    \/ GetUserPaths(userId, platform)
    \/ setupUserWorkspace(userId, platform)

SpecPaths == Init /\ [][NextPaths]_vars

---------------------------------------------------------------------------
(* Two tenants of the cloud backend.  A user id of the backend is a string; *)
(* the manager keys its cache, its token index and the files by             *)
(* sanitizeUserId(userId).                                                  *)

TenantUserIds == { <<"a">>, <<"b">>, <<"b", "/">> }

TenantConfigs ==
  [userId : TenantUserIds, gatewayToken : {"t1"}, openclawConfig : {"c2"},
   status : {"active"}, llmApiKey : {"k1"}]

TenantRecords(remaining, skipped) ==
  IF skipped = remaining THEN {NoCloudConfig} ELSE TenantConfigs

\* config sync batches for these tenants, and the loading of their instances
NextTenants ==
  \/ \E n \in 0..MaxBatch, k \in 0..MaxBatch :
       \E c \in TenantRecords(n, k) :
         updateUserConfigs(n, k, c) /\ UNCHANGED <<service, applied, cleanupTimer, files>>
  \/ \E c \in InFlight, ok \in BOOLEAN, k \in 0..MaxBatch :
       /\ c.kind = "update"
       /\ \E r \in TenantRecords(c.remaining, k) :
            UpdateWritten(c, ok, k, r) /\ UNCHANGED <<service, applied, cleanupTimer, files>>
  \/ \E u \in TenantUserIds : getUserInstance(u, FALSE)
  \/ GetCompletes

SpecTenants == InitProvisioned /\ [][NextTenants]_vars

---------------------------------------------------------------------------
(* createWorkspaceFileResolver(params): readWorkspaceFile(filename) and     *)
(* writeWorkspaceFile(filename, content) of one tenant's resolver.  A       *)
(* filename is the sequence of its path segments; fs calls settle in steps  *)
(* of their own and may fail with an error other than ENOENT.               *)

RawFilenames == { <<"notes.md">>, <<"..", "SOUL.md">> }

\* path.basename(filename)
Basename(filename) == filename[Len(filename)]

NoDefault == "undefined"
Null == "null"

DEFAULT_FILE_CONTENT(safeName) ==
  IF safeName = "SOUL.md" THEN "# Soul" ELSE NoDefault

\* a custom layer an earlier run left, and the operator's template directory
InitWorkspace ==
  /\ InitManager
  /\ disk = [u \in Users |-> "c1"]
  /\ files \in [custom : [Filenames -> {NoFile, "x"}],
                template : [Filenames -> {NoFile, "t"}],
                written : {[f \in Filenames |-> NotWritten]},
                begun : {[f \in Filenames |-> 0]},
                home : {NoHome}]

WorkspaceOnly ==
  UNCHANGED <<userInstances, tokenToUserId, workspaceResolvers, disk,
              lastSyncAt, syncFailures, cloudBackendUrl, now, reqs,
              contexts, synced, service, applied, cleanupTimer>>

WriteInFlight(safeName) ==
  \E w \in InFlight : w.kind = "writeFile" /\ Basename(w.filename) = safeName

\* what a read that returns reports: the name asked for, the content of the
\* last write that had completed when the read began, and whether no write
\* of that name was in flight or begun while the read ran
ReadArg(c) ==
  [filename |-> c.filename,
   written |-> c.written,
   quiet |-> c.quiet /\ files.begun[Basename(c.filename)] = c.begun]

FoundIfTruthy(content) == content # NoFile /\ content # ""

\* customContent !== null: a file with any content, the empty one included
FoundContent(content) == content # NoFile

\* reads change nothing: one read at a time is followed
ReadInFlight == \E r \in InFlight : r.kind = "readFile"

readWorkspaceFile(filename) ==
  /\ CanStart
  /\ ~ReadInFlight
  /\ calls' = Started([kind |-> "readFile", pc |-> "custom",
                       filename |-> filename,
                       written |-> files.written[Basename(filename)],
                       quiet |-> ~WriteInFlight(Basename(filename)),
                       begun |-> files.begun[Basename(filename)]])
  /\ lastOp' = Op("readWorkspaceFileBegin", filename, NoUser)
  /\ emitted' = <<>>
  /\ UNCHANGED files
  /\ WorkspaceOnly

\* tryReadFile(customPath) settles
ReadCustom(c, readOk) ==
  /\ c.kind = "readFile" /\ c.pc = "custom"
  /\ LET customContent == files.custom[Basename(c.filename)]
     IN  IF ~readOk
         THEN /\ calls' = Finished(c)
              /\ lastOp' = Op("readWorkspaceFile", ReadArg(c), "throw")
         ELSE IF FoundContent(customContent)
         THEN /\ calls' = Finished(c)
              /\ lastOp' = Op("readWorkspaceFile", ReadArg(c), customContent)
         ELSE /\ calls' = Resumed(c, [c EXCEPT !.pc = "template"])
              /\ lastOp' = Op("tryReadFile", c.filename, Null)
  /\ emitted' = <<>>
  /\ UNCHANGED files
  /\ WorkspaceOnly

\* tryReadFile(templateFilePath) settles; then the built-in default
ReadTemplate(c, readOk) ==
  /\ c.kind = "readFile" /\ c.pc = "template"
  /\ LET safeName == Basename(c.filename)
         templateContent == files.template[safeName]
         defaultContent == DEFAULT_FILE_CONTENT(safeName)
     IN  /\ calls' = Finished(c)
         /\ lastOp' = Op("readWorkspaceFile", ReadArg(c),
                         IF ~readOk THEN "throw"
                         ELSE IF templateContent # NoFile THEN templateContent
                         ELSE IF defaultContent # NoDefault /\ defaultContent # ""
                              THEN defaultContent
                         ELSE Null)
  /\ emitted' = <<>>
  /\ UNCHANGED files
  /\ WorkspaceOnly

writeWorkspaceFile(filename, content) ==
  /\ CanStart
  /\ files.begun[Basename(filename)] < MaxWrites
  /\ files' = [files EXCEPT !.begun[Basename(filename)] = @ + 1]
  /\ calls' = Started([kind |-> "writeFile", pc |-> "mkdir",
                       filename |-> filename, content |-> content])
  /\ lastOp' = Op("writeWorkspaceFileBegin", filename, NoUser)
  /\ emitted' = <<>>
  /\ WorkspaceOnly

\* ensureDir(customDir) settles
WriteDirEnsured(c, mkdirOk) ==
  /\ c.kind = "writeFile" /\ c.pc = "mkdir"
  /\ IF mkdirOk
     THEN /\ calls' = Resumed(c, [c EXCEPT !.pc = "write"])
          /\ lastOp' = Op("ensureDir", c.filename, NoUser)
     ELSE /\ calls' = Finished(c)
          /\ lastOp' = Op("writeWorkspaceFile",
                          [filename |-> c.filename, content |-> c.content],
                          "throw")
  /\ emitted' = <<>>
  /\ UNCHANGED files
  /\ WorkspaceOnly

\* fs.writeFile settles: the file holds the content, or the call failed and
\* left the file as it was, or failed after truncating it
WriteOutcomes == {"written", "failed", "truncated"}

WriteSettled(c, outcome) ==
  /\ c.kind = "writeFile" /\ c.pc = "write"
  /\ LET safeName == Basename(c.filename)
     IN  files' =
           IF outcome = "written"
           THEN [files EXCEPT !.custom[safeName] = c.content,
                              !.written[safeName] = c.content]
           ELSE IF outcome = "truncated"
           THEN [files EXCEPT !.custom[safeName] = "",
                              !.written[safeName] = NotWritten]
           ELSE files
  /\ calls' = Finished(c)
  /\ lastOp' = Op("writeWorkspaceFile",
                  [filename |-> c.filename, content |-> c.content],
                  IF outcome = "written" THEN "ok" ELSE "throw")
  /\ emitted' = <<>>
  /\ WorkspaceOnly

NextWorkspace ==
  \/ \E filename \in RawFilenames : readWorkspaceFile(filename)
  \/ \E c \in InFlight, ok \in BOOLEAN : ReadCustom(c, ok)
  \/ \E c \in InFlight, ok \in BOOLEAN : ReadTemplate(c, ok)
  \/ \E filename \in RawFilenames, content \in Contents :
       writeWorkspaceFile(filename, content)
  \/ \E c \in InFlight, ok \in BOOLEAN : WriteDirEnsured(c, ok)
  \/ \E c \in InFlight, outcome \in WriteOutcomes : WriteSettled(c, outcome)

SpecWorkspace == InitWorkspace /\ [][NextWorkspace]_vars

---------------------------------------------------------------------------
(* writeUserConfig(userId, config) and readUserConfig(userId): the config   *)
(* file holds JSON.stringify(config, null, 2) and is read with JSON5.parse. *)
(*                                                                          *)
(* A JavaScript value is [t, v] with t its kind; a text is the sequence of  *)
(* its tokens: punctuation, white space, literals, numbers and strings, a   *)
(* string token holding its characters as escaped in the text.  In this     *)
(* part disk[u] is the file itself: whether it exists, its text, and (as    *)
(* history) the config of the successful write that produced the text.      *)
(* The calls are followed one after another.                                *)

MaxItems == 1

Js(t, v) == [t |-> t, v |-> v]

JsNull == Js("null", 0)
JsUndefined == Js("undefined", 0)
JsNaN == Js("NaN", 0)

JsStrings == { Js("string", chars) :
                 chars \in { <<>>, <<"a">>, <<"\"">>, <<"\\", "a">> } }

JsScalars ==
  {JsNull, JsUndefined, JsNaN, Js("boolean", TRUE), Js("number", 1)}
  \cup JsStrings

JsArrays ==
  { Js("array", items) :
      items \in UNION { [1..n -> JsScalars] : n \in 0..MaxItems } }

Keys == { <<"k">>, <<"\"">> }

JsObjects ==
  { Js("object", <<>>) }
  \cup { Js("object", <<[k |-> key, v |-> val]>>) :
           key \in Keys, val \in JsScalars \cup JsArrays }

\* what writeUserConfig is called with: config objects, and null
JsConfigs == JsObjects \cup {JsNull}

Tok(t, v) == [t |-> t, v |-> v]
Punct(p) == Tok(p, 0)
Ws == Tok("ws", 0)

\* JSON.stringify quotes a string: '"' and '\' get a backslash
RawChars(chars) == chars

RECURSIVE Escaped(_)
Escaped(chars) ==
  IF chars = <<>> THEN <<>>
  ELSE (IF Head(chars) \in {"\"", "\\"} THEN <<"\\", Head(chars)>>
        ELSE <<Head(chars)>>) \o Escaped(Tail(chars))

Quote(chars) == Tok("string", Escaped(chars))

\* JSON.stringify(value, null, 2); NoText for undefined
NoText == <<Tok("undefined", 0)>>

RECURSIVE JSONStringify(_)
RECURSIVE StringifyItems(_)
RECURSIVE StringifyFields(_)

StringifyItems(items) ==
  IF items = <<>> THEN <<>>
  ELSE <<Ws>>
       \o (IF Head(items).t \in {"undefined", "NaN"} THEN <<Punct("null")>>
           ELSE JSONStringify(Head(items)))
       \o (IF Len(items) > 1 THEN <<Punct(",")>> ELSE <<>>)
       \o StringifyItems(Tail(items))

\* the fields whose value is not undefined
StringifyFields(fields) ==
  IF fields = <<>> THEN <<>>
  ELSE <<Ws, Quote(Head(fields).k), Punct(":"), Ws>>
       \o JSONStringify(Head(fields).v)
       \o (IF Len(fields) > 1 THEN <<Punct(",")>> ELSE <<>>)
       \o StringifyFields(Tail(fields))

JSONStringify(value) ==
  CASE value.t = "undefined" -> NoText
    [] value.t = "null" -> <<Punct("null")>>
    [] value.t = "NaN" -> <<Punct("null")>>
    [] value.t = "boolean" -> <<Punct(IF value.v THEN "true" ELSE "false")>>
    [] value.t = "number" -> <<Tok("number", value.v)>>
    [] value.t = "string" -> <<Quote(value.v)>>
    [] value.t = "array" ->
         IF value.v = <<>> THEN <<Punct("["), Punct("]")>>
         ELSE <<Punct("[")>> \o StringifyItems(value.v) \o <<Ws, Punct("]")>>
    [] value.t = "object" ->
         LET fields == SelectSeq(value.v, LAMBDA f : f.v.t # "undefined")
         IN  IF fields = <<>> THEN <<Punct("{"), Punct("}")>>
             ELSE <<Punct("{")>> \o StringifyFields(fields) \o <<Ws, Punct("}")>>

\* JSON5.parse(text): [ok, value, next], next the position after the value
RECURSIVE Unescaped(_)
Unescaped(chars) ==
  IF chars = <<>> THEN <<>>
  ELSE IF Head(chars) = "\\" /\ Len(chars) >= 2
       THEN <<chars[2]>> \o Unescaped(SubSeq(chars, 3, Len(chars)))
       ELSE <<Head(chars)>> \o Unescaped(Tail(chars))

RECURSIVE SkipWs(_, _)
SkipWs(text, i) ==
  IF i <= Len(text) /\ text[i].t = "ws" THEN SkipWs(text, i + 1) ELSE i

SyntaxError == [ok |-> FALSE, value |-> JsUndefined, next |-> 0]
Parsed(value, next) == [ok |-> TRUE, value |-> value, next |-> next]

RECURSIVE ParseValue(_, _)
RECURSIVE ParseItems(_, _, _)
RECURSIVE ParseFields(_, _, _)

\* after "[" or ",": an item or the closing bracket (a trailing comma is
\* JSON5)
ParseItems(text, i, items) ==
  LET j == SkipWs(text, i)
  IN  IF j > Len(text) THEN SyntaxError
      ELSE IF text[j].t = "]" THEN Parsed(Js("array", items), j + 1)
      ELSE LET item == ParseValue(text, j)
               k == SkipWs(text, item.next)
           IN  IF ~item.ok \/ k > Len(text) THEN SyntaxError
               ELSE IF text[k].t = ","
                    THEN ParseItems(text, k + 1, Append(items, item.value))
               ELSE IF text[k].t = "]"
                    THEN Parsed(Js("array", Append(items, item.value)), k + 1)
               ELSE SyntaxError

ParseFields(text, i, fields) ==
  LET j == SkipWs(text, i)
  IN  IF j > Len(text) THEN SyntaxError
      ELSE IF text[j].t = "}" THEN Parsed(Js("object", fields), j + 1)
      ELSE IF text[j].t # "string" THEN SyntaxError
      ELSE LET c == SkipWs(text, j + 1)
           IN  IF c > Len(text) \/ text[c].t # ":" THEN SyntaxError
               ELSE LET val == ParseValue(text, c + 1)
                        k == SkipWs(text, val.next)
                        read == Append(fields, [k |-> Unescaped(text[j].v),
                                                v |-> val.value])
                    IN  IF ~val.ok \/ k > Len(text) THEN SyntaxError
                        ELSE IF text[k].t = ","
                             THEN ParseFields(text, k + 1, read)
                        ELSE IF text[k].t = "}"
                             THEN Parsed(Js("object", read), k + 1)
                        ELSE SyntaxError

ParseValue(text, i) ==
  LET j == SkipWs(text, i)
  IN  IF j > Len(text) THEN SyntaxError
      ELSE CASE text[j].t = "null" -> Parsed(JsNull, j + 1)
             [] text[j].t = "true" -> Parsed(Js("boolean", TRUE), j + 1)
             [] text[j].t = "false" -> Parsed(Js("boolean", FALSE), j + 1)
             [] text[j].t = "number" -> Parsed(Js("number", text[j].v), j + 1)
             [] text[j].t = "string" ->
                  Parsed(Js("string", Unescaped(text[j].v)), j + 1)
             [] text[j].t = "[" -> ParseItems(text, j + 1, <<>>)
             [] text[j].t = "{" -> ParseFields(text, j + 1, <<>>)
             [] OTHER -> SyntaxError

JSON5Parse(text) ==
  LET val == ParseValue(text, 1)
  IN  IF val.ok /\ SkipWs(text, val.next) > Len(text) THEN val ELSE SyntaxError

NoWrite == Js("none", 0)
NoConfigFile == [exists |-> FALSE, text |-> <<>>, wrote |-> NoWrite]
ConfigFileOf(text, config) == [exists |-> TRUE, text |-> text, wrote |-> config]

InitConfigFiles ==
  /\ InitManager
  /\ disk = [u \in Users |-> NoConfigFile]
  /\ files = NoWorkspace

ConfigFileOnly ==
  UNCHANGED <<userInstances, tokenToUserId, workspaceResolvers, lastSyncAt,
              syncFailures, cloudBackendUrl, now, reqs, contexts, synced,
              service, applied, cleanupTimer, files>>

writeUserConfig(userId, config) ==
  /\ calls = EmptyBag
  /\ IF SanitizeThrows(userId)
     THEN /\ lastOp' = Op("writeUserConfig", userId, "InvalidUserId")
          /\ UNCHANGED calls
     ELSE /\ calls' = Started([kind |-> "writeConfig", pc |-> "mkdir",
                               userId |-> userId, config |-> config])
          /\ lastOp' = Op("writeUserConfigBegin", userId, NoUser)
  /\ emitted' = <<>>
  /\ UNCHANGED disk
  /\ ConfigFileOnly

\* fs.promises.mkdir(configDir) settles; then JSON.stringify
ConfigDirEnsured(c, mkdirOk) ==
  /\ c.kind = "writeConfig" /\ c.pc = "mkdir"
  /\ IF mkdirOk /\ JSONStringify(c.config) # NoText
     THEN /\ calls' = Resumed(c, [c EXCEPT !.pc = "write"])
          /\ lastOp' = Op("mkdir", c.userId, NoUser)
     ELSE /\ calls' = Finished(c)
          /\ lastOp' = Op("writeUserConfig", c.userId, "throw")
  /\ emitted' = <<>>
  /\ UNCHANGED disk
  /\ ConfigFileOnly

\* fs.promises.writeFile(configPath, json) settles
ConfigWritten(c, outcome) ==
  /\ c.kind = "writeConfig" /\ c.pc = "write"
  /\ disk' =
       IF outcome = "written"
       THEN [disk EXCEPT ![sanitizeUserId(c.userId)] =
               ConfigFileOf(JSONStringify(c.config), c.config)]
       ELSE IF outcome = "truncated"
       THEN [disk EXCEPT ![sanitizeUserId(c.userId)] = ConfigFileOf(<<>>, NoWrite)]
       ELSE disk
  /\ calls' = Finished(c)
  /\ lastOp' = Op("writeUserConfig", c.userId,
                  IF outcome = "written" THEN "ok" ELSE "throw")
  /\ emitted' = <<>>
  /\ ConfigFileOnly

readUserConfig(userId) ==
  /\ calls = EmptyBag
  /\ IF SanitizeThrows(userId)
     THEN /\ lastOp' = Op("readUserConfig", userId,
                          [outcome |-> "InvalidUserId", value |-> JsUndefined])
          /\ UNCHANGED calls
     ELSE /\ calls' = Started([kind |-> "readConfig", pc |-> "read",
                               userId |-> userId])
          /\ lastOp' = Op("readUserConfigBegin", userId, NoUser)
  /\ emitted' = <<>>
  /\ UNCHANGED disk
  /\ ConfigFileOnly

\* fs.promises.readFile settles: the text (parsed), ENOENT (null), or
\* another error (rethrown)
ConfigRead(c, readOk) ==
  /\ c.kind = "readConfig"
  /\ LET file == disk[sanitizeUserId(c.userId)]
     IN  lastOp' = Op("readUserConfig", c.userId,
                      IF ~readOk
                      THEN [outcome |-> "throw", value |-> JsUndefined]
                      ELSE IF ~file.exists
                      THEN [outcome |-> "return", value |-> JsNull]
                      ELSE IF JSON5Parse(file.text).ok
                      THEN [outcome |-> "return",
                            value |-> JSON5Parse(file.text).value]
                      ELSE [outcome |-> "SyntaxError", value |-> JsUndefined])
  /\ calls' = Finished(c)
  /\ emitted' = <<>>
  /\ UNCHANGED disk
  /\ ConfigFileOnly

\* one tenant's id as the cloud sends it, and an id that is rejected
ConfigUserIds == { <<"b", "/">>, <<"/">> }

NextConfigFile ==
  \/ \E userId \in ConfigUserIds, config \in JsConfigs :
       writeUserConfig(userId, config)
  \/ \E c \in InFlight, ok \in BOOLEAN : ConfigDirEnsured(c, ok)
  \/ \E c \in InFlight, outcome \in WriteOutcomes : ConfigWritten(c, outcome)
  \/ \E userId \in ConfigUserIds : readUserConfig(userId)
  \/ \E c \in InFlight, ok \in BOOLEAN : ConfigRead(c, ok)

SpecConfigFile == InitConfigFiles /\ [][NextConfigFile]_vars

---------------------------------------------------------------------------
(* setupUserWorkspace(opts): what a run leaves on disk for one user.  Its   *)
(* fs calls are synchronous; a run performs them in order and either        *)
(* returns or throws at the first one that fails.                           *)

SetupKeys == {"null", "k1", "k2"}
SetupBaseUrls == {"null", "u1"}

\* if (llmApiKey), if (llmApiBaseUrl)
Supplied(str) == str \notin {"null", ""}

\* writeAuthProfiles: { version: 1, profiles } with key and baseURL?
AuthStore(llmApiKey, llmApiBaseUrl) ==
  FileOf("auth-profiles", llmApiKey,
         IF Supplied(llmApiBaseUrl) THEN llmApiBaseUrl ELSE "")

\* writeModelsJson: providers with baseUrl
ModelsConfig(llmApiBaseUrl) == FileOf("models", llmApiBaseUrl, "")

DefaultFile(name) == FileOf("default", name, "")
Edited == FileOf("edited", "", "")

\* the fs calls of a run, in order
SetupOps ==
  <<"agent", "sessions", "memory", "custom", "auth-profiles.json",
    "models.json", "openclaw.json", "HEARTBEAT.md", "USER.md">>

\* writing the default over whatever is there
WriteAlways(home, name) == [home EXCEPT !.files[name] = DefaultFile(name)]

\* if (!fs.existsSync(path)) fs.writeFileSync(path, default)
WriteIfAbsent(home, name) ==
  IF home.files[name] = Missing
  THEN [home EXCEPT !.files[name] = DefaultFile(name)]
  ELSE home

SetupOp(home, op, llmApiKey, llmApiBaseUrl) ==
  CASE op \in SetupDirs -> [home EXCEPT !.dirs = @ \cup {op}]
    [] op = "auth-profiles.json" ->
         IF Supplied(llmApiKey)
         THEN [home EXCEPT !.files[op] = AuthStore(llmApiKey, llmApiBaseUrl)]
         ELSE home
    [] op = "models.json" ->
         IF Supplied(llmApiKey) /\ Supplied(llmApiBaseUrl)
         THEN [home EXCEPT !.files[op] = ModelsConfig(llmApiBaseUrl)]
         ELSE home
    [] OTHER -> WriteIfAbsent(home, op)

RECURSIVE SetupOpsDone(_, _, _, _)
SetupOpsDone(home, done, llmApiKey, llmApiBaseUrl) ==
  IF done = 0 THEN home
  ELSE SetupOp(SetupOpsDone(home, done - 1, llmApiKey, llmApiBaseUrl),
               SetupOps[done], llmApiKey, llmApiBaseUrl)

\* a user never provisioned, or one whose files an earlier run and the user
\* have written
Homes ==
  { NoHome,
    [dirs |-> SetupDirs,
     files |-> [f \in SetupFiles |->
                  IF f = "auth-profiles.json" THEN AuthStore("k1", "u1")
                  ELSE IF f = "models.json" THEN ModelsConfig("u1")
                  ELSE Edited]],
    [dirs |-> SetupDirs,
     files |-> [f \in SetupFiles |->
                  IF f = "openclaw.json" THEN Edited ELSE Missing]] }

InitSetup ==
  /\ InitManager
  /\ disk = [u \in Users |-> NoConfig]
  /\ files \in { [NoWorkspace EXCEPT !.home = h] : h \in Homes }

\* one run: `done` fs calls succeed; the run throws unless all of them do.
\* Without workspaceRoot the run returns null at once.
SetupRun(rootConfigured, llmApiKey, llmApiBaseUrl, done) ==
  /\ done \in 0..Len(SetupOps)
  /\ ~rootConfigured => done = 0
  /\ files' = IF rootConfigured
              THEN [files EXCEPT !.home =
                      SetupOpsDone(@, done, llmApiKey, llmApiBaseUrl)]
              ELSE files
  /\ lastOp' = Op("setupUserWorkspaceRun",
                  [workspaceRoot |-> rootConfigured, llmApiKey |-> llmApiKey,
                   llmApiBaseUrl |-> llmApiBaseUrl],
                  IF ~rootConfigured THEN "null"
                  ELSE IF done = Len(SetupOps) THEN "paths" ELSE "throw")
  /\ emitted' = <<>>
  /\ UNCHANGED <<userInstances, tokenToUserId, workspaceResolvers, disk,
                 lastSyncAt, syncFailures, cloudBackendUrl, now, calls, reqs,
                 contexts, synced, service, applied, cleanupTimer>>

NextSetup ==
  \E rootConfigured \in BOOLEAN, llmApiKey \in SetupKeys,
     llmApiBaseUrl \in SetupBaseUrls, done \in 0..Len(SetupOps) :
    SetupRun(rootConfigured, llmApiKey, llmApiBaseUrl, done)

SpecSetup == InitSetup /\ [][NextSetup]_vars

---------------------------------------------------------------------------
(* cleanupInactiveUsers on a manager constructed with maxCachedUsers = 2    *)
(* and an idle timeout that leaves instances of several ages in the cache   *)

LruMaxCachedUsers == 2
LruIdleTimeoutMs == 2
LruNow == 3
\* the users in the order in which they were loaded
LruUsers == << <<"a">>, <<"b">>, <<"c">>, <<"d">> >>

IdleVictimsAfter(insts, idleTimeout) ==
  { insts[i].userId : i \in
      { j \in 1..Len(insts) :
          /\ ~(insts[j].pendingRequests > 0)
          /\ now - insts[j].lastActivityAt > idleTimeout } }

RECURSIVE LruVictimsAbove(_, _)
LruVictimsAbove(insts, maxCachedUsers) ==
  IF Len(insts) > maxCachedUsers /\ OldestIdle(insts) # 0
  THEN <<insts[OldestIdle(insts)].userId>>
         \o LruVictimsAbove(MapDelete(insts, insts[OldestIdle(insts)].userId),
                            maxCachedUsers)
  ELSE <<>>

LruInstance(userId, lastActivityAt, pendingRequests) ==
  [userId |-> userId, config |-> "c1", status |-> "active",
   llmApiKey |-> "undefined", lastActivityAt |-> lastActivityAt,
   pendingRequests |-> pendingRequests]

\* the caches of three or four users
LruCaches ==
  UNION { { [i \in 1..n |-> LruInstance(LruUsers[i], t[i], p[i])] :
              t \in [1..n -> 0..LruNow], p \in [1..n -> 0..1] } :
          n \in 3..Len(LruUsers) }

InitLru ==
  /\ userInstances \in LruCaches
  /\ tokenToUserId = [t \in Tokens |-> NoUser]
  /\ workspaceResolvers = {}
  /\ lastSyncAt = NoTime
  /\ syncFailures = 0
  /\ cloudBackendUrl = TRUE
  /\ now = LruNow
  /\ calls = EmptyBag
  /\ reqs = [s \in 1..MaxReqs |-> NoUser]
  /\ contexts = {}
  /\ synced = [u \in Users |-> "none"]
  /\ service = NewConfigSyncService
  /\ applied = NothingApplied
  /\ cleanupTimer = NoCleanupTimer
  /\ lastOp = Op("new", NoUser, NoUser)
  /\ emitted = <<>>
  /\ disk = [u \in Users |-> "c1"]
  /\ files = NoWorkspace

CleanupLru ==
  CleanupPasses(IdleVictimsAfter(userInstances, LruIdleTimeoutMs),
                LAMBDA insts : LruVictimsAbove(insts, LruMaxCachedUsers))

NextLru == CleanupLru

SpecLru == InitLru /\ [][NextLru]_vars

---------------------------------------------------------------------------
(* ConfigSyncService                                                       *)

Timer(delayMs) == [delay |-> delayMs, pending |-> TRUE]

Min(a, b) == IF a < b THEN a ELSE b

\* scheduleSync without the isRunning test
ScheduleAlways(svc, delayMs) == [svc EXCEPT !.syncTimer = Timer(delayMs)]

\* scheduleSync(delayMs): clearTimeout of the old handle, a new setTimeout
scheduleSync(svc, delayMs) ==
  IF ~svc.isRunning THEN svc ELSE [svc EXCEPT !.syncTimer = Timer(delayMs)]

scheduleNextSync(svc) ==
  IF ~svc.isRunning THEN svc
  ELSE IF svc.consecutiveFailures > 0
       THEN scheduleSync(svc, svc.currentRetryDelay)
       ELSE scheduleSync(svc, SyncIntervalMs)

\* what follows doSync in its caller: the timer callback goes on to
\* scheduleNextSync, syncNow returns the result
AfterDoSync(svc, origin) ==
  IF origin = "timer" THEN scheduleNextSync(svc) ELSE svc

\* a doSync that does not look at isSyncing
NeverInProgress(svc) == FALSE

\* if (this.isSyncing)
SyncInProgress(svc) == svc.isSyncing

\* an alert only above the threshold
AlertAbove(failures) == failures > AlertThreshold

\* if (this.consecutiveFailures >= this.options.alertThreshold)
ShouldAlert(failures) == failures >= AlertThreshold

\* a timestamp that is set once
KeepFirstTimestamp(current, response) ==
  IF current = NoTimestamp THEN response.syncTimestamp ELSE current

\* this.lastSyncTimestamp = response.syncTimestamp
NextTimestamp(current, response) == response.syncTimestamp

\* the body of a 200 response: users are drawn by the action that applies
\* it; a cursor comes only with hasMore
SyncResponses ==
  { r \in [syncTimestamp : SyncTimestamps, hasMore : BOOLEAN, nextCursor : BOOLEAN] :
      r.nextCursor => r.hasMore }

NoResponse == [syncTimestamp |-> NoTimestamp, hasMore |-> FALSE, nextCursor |-> FALSE]

\* fetchConfigs: the url carries since when lastSyncTimestamp is set
SinceParam(svc) == svc.lastSyncTimestamp

\* fetchConfigs sets no other search parameter: the nextCursor of a response
\* is not kept by doSync and not sent
NoCursor == "none"
CursorParam(svc) == NoCursor

ServiceOnly ==
  UNCHANGED <<userInstances, tokenToUserId, workspaceResolvers, disk, lastSyncAt,
              syncFailures, cloudBackendUrl, now, calls, reqs, contexts, synced,
              applied, cleanupTimer, files>>

\* ConfigSyncService.start()
ServiceStart ==
  /\ service' = IF service.isRunning
                THEN [service EXCEPT !.lastResult = NoSyncResult]
                ELSE scheduleSync([service EXCEPT !.isRunning = TRUE,
                                                  !.lastResult = NoSyncResult], 0)
  /\ lastOp' = Op("serviceStart", service.isRunning, NoUser)
  /\ emitted' = <<>>
  /\ ServiceOnly

\* ConfigSyncService.stop()
ServiceStop ==
  /\ service' = [service EXCEPT !.isRunning = FALSE, !.syncTimer = NoTimer,
                                 !.lastResult = NoSyncResult]
  /\ lastOp' = Op("serviceStop", service.isRunning, NoUser)
  /\ emitted' = <<>>
  /\ ServiceOnly

\* doSync() up to the await of fetch, entered from the timer callback or
\* from syncNow(); a call that finds isSyncing returns at once
DoSyncBegin(origin) ==
  /\ origin \in {"timer", "syncNow"}
  /\ origin = "timer" => service.syncTimer.pending
  /\ LET fired == IF origin = "timer"
                  THEN [service EXCEPT !.syncTimer.pending = FALSE]
                  ELSE service
     IN  IF SyncInProgress(fired)
         THEN /\ service' = AfterDoSync(
                   [fired EXCEPT !.lastResult =
                      [NoSyncResult EXCEPT !.error = "sync_in_progress",
                                           !.origin = origin]], origin)
              /\ lastOp' = Op("doSync", origin, "sync_in_progress")
         ELSE /\ BagCardinality(service.syncs) < MaxCalls
              /\ service' = [fired EXCEPT
                   !.isSyncing = TRUE,
                   !.lastResult = NoSyncResult,
                   !.syncs = @ (+) SetToBag({[origin |-> origin, pc |-> "fetch",
                                              since |-> SinceParam(fired),
                                              cursor |-> CursorParam(fired),
                                              response |-> NoResponse]})]
              /\ lastOp' = Op("fetchConfigs", origin, SinceParam(fired))
  /\ emitted' = <<>>
  /\ ServiceOnly

\* a catch branch that leaves consecutiveFailures as it is
FailedUncounted(svc, c) ==
  AfterDoSync(
    [svc EXCEPT
       !.currentRetryDelay = Min(@ * 2, MaxRetryDelayMs),
       !.isSyncing = FALSE,
       !.syncs = @ (-) SetToBag({c}),
       !.lastResult = [NoSyncResult EXCEPT
                         !.error = "fetch_failed", !.origin = c.origin,
                         !.alerted = ShouldAlert(svc.consecutiveFailures)]],
    c.origin)

\* the catch branch and finally of doSync
Failed(svc, c) ==
  AfterDoSync(
    [svc EXCEPT
       !.consecutiveFailures = @ + 1,
       !.currentRetryDelay = Min(@ * 2, MaxRetryDelayMs),
       !.isSyncing = FALSE,
       !.syncs = @ (-) SetToBag({c}),
       !.lastResult = [NoSyncResult EXCEPT
                         !.error = "fetch_failed", !.origin = c.origin,
                         !.alerted = ShouldAlert(svc.consecutiveFailures + 1)]],
    c.origin)

\* fetch rejects, the response is not ok, or its body does not parse
FetchFails(c) ==
  /\ c \in BagToSet(service.syncs)
  /\ c.pc = "fetch"
  /\ service.consecutiveFailures < MaxSyncFailures
  /\ recordSyncFailure
  /\ service' = Failed(service, c)
  /\ UNCHANGED <<applied, cleanupTimer, files>>

\* the rest of the try block after updateUserConfigs has returned, and finally
Succeeded(svc, c, response, usersUpdated) ==
  LET reset == [svc EXCEPT
                  !.lastSyncTimestamp = NextTimestamp(@, response),
                  !.lastSuccess = response.syncTimestamp,
                  !.consecutiveFailures = 0,
                  !.currentRetryDelay = InitialRetryDelayMs]
      more  == IF response.hasMore /\ response.nextCursor
               THEN scheduleSync(reset, FollowUpDelayMs)
               ELSE reset
  IN  AfterDoSync(
        [more EXCEPT
           !.isSyncing = FALSE,
           !.syncs = @ (-) SetToBag({c}),
           !.lastResult = [NoSyncResult EXCEPT
                             !.success = TRUE, !.usersUpdated = usersUpdated,
                             !.origin = c.origin, !.hasMore = response.hasMore,
                             !.nextCursor = response.nextCursor]],
        c.origin)

\* fetch resolves with a 200 response; updateUserConfigs(response.users)
\* runs up to its first writeUserConfig, or to its end
FetchResponds(c, response, total, skipped, cloudConfig) ==
  /\ c \in BagToSet(service.syncs)
  /\ c.pc = "fetch"
  /\ response \in SyncResponses
  /\ updateUserConfigs(total, skipped, cloudConfig)
  /\ service' = IF lastOp'.op = "updateUserConfigsDone"
                THEN Succeeded(service, c, response, lastOp'.ret)
                ELSE [service EXCEPT
                        !.lastResult = NoSyncResult,
                        !.syncs = (@ (-) SetToBag({c})) (+)
                                  SetToBag({[c EXCEPT !.pc = "apply",
                                                      !.response = response]})]
  /\ UNCHANGED <<applied, cleanupTimer, files>>

\* writeUserConfig settles inside the updateUserConfigs that doSync awaits
ApplyWritten(c, u, writeOk, skipped, cloudConfig) ==
  /\ c \in BagToSet(service.syncs)
  /\ c.pc = "apply"
  /\ UpdateWritten(u, writeOk, skipped, cloudConfig)
  /\ service' = IF lastOp'.op = "updateUserConfigsDone"
                THEN Succeeded(service, c, c.response, lastOp'.ret)
                ELSE [service EXCEPT !.lastResult = NoSyncResult]
  /\ UNCHANGED <<applied, cleanupTimer, files>>

ManagerOnly ==
  /\ service' = [service EXCEPT !.lastResult = NoSyncResult]
  /\ UNCHANGED <<userInstances, tokenToUserId, workspaceResolvers, disk, lastSyncAt,
                 syncFailures, cloudBackendUrl, now, calls, reqs, contexts, synced,
                 applied, files>>

\* always setInterval
StartAgain(timer) == FALSE

\* if (this.cleanupTimer) return
AlreadyStarted(timer) == timer.handle # 0

\* setInterval returns a handle that no running interval has
NewInterval(timer) == CHOOSE h \in 1..MaxTimers : h \notin timer.intervals

\* MultiTenantGatewayManager.start(): setInterval unless one is running
ManagerStart ==
  /\ cleanupTimer.intervals # 1..MaxTimers
  /\ cleanupTimer' =
       IF AlreadyStarted(cleanupTimer) THEN cleanupTimer
       ELSE [handle |-> NewInterval(cleanupTimer),
             intervals |-> cleanupTimer.intervals \cup {NewInterval(cleanupTimer)}]
  /\ lastOp' = Op("managerStart", NoUser,
                  IF AlreadyStarted(cleanupTimer) THEN "running" ELSE "started")
  /\ emitted' = <<>>
  /\ ManagerOnly

\* MultiTenantGatewayManager.stop(): clearInterval
ManagerStop ==
  /\ cleanupTimer' =
       IF cleanupTimer.handle # 0
       THEN [handle |-> 0,
             intervals |-> cleanupTimer.intervals \ {cleanupTimer.handle}]
       ELSE cleanupTimer
  /\ lastOp' = Op("managerStop", NoUser, NoUser)
  /\ emitted' = <<>>
  /\ ManagerOnly

\* the users of a page: a changed config for the cached tenant, between
\* records that sanitizeUserId rejects
PageRecords(remaining, skipped) ==
  { c \in NextRecords(remaining, skipped) :
      c = NoCloudConfig \/ (c.openclawConfig = "c2" /\ c.status = "active") }

NextService ==
  \/ ServiceStart
  \/ ServiceStop
  \/ \E origin \in {"timer", "syncNow"} : DoSyncBegin(origin)
  \/ \E c \in BagToSet(service.syncs) : FetchFails(c)
  \/ \E c \in BagToSet(service.syncs), response \in SyncResponses,
        n \in 0..MaxPage, k \in 0..MaxPage :
       \E r \in PageRecords(n, k) : FetchResponds(c, response, n, k, r)
  \/ \E c \in BagToSet(service.syncs), u \in InFlight, ok \in BOOLEAN,
        k \in 0..MaxPage :
       /\ u.kind = "update"
       /\ \E r \in PageRecords(u.remaining, k) : ApplyWritten(c, u, ok, k, r)

\* the sync service on a serving manager
SpecService == InitServing /\ [][NextService]_vars

\* the service and the manager's cleanup interval, started and stopped
NextStop ==
  \/ NextService
  \/ ManagerStart
  \/ ManagerStop

SpecStop == InitServing /\ [][NextStop]_vars

\* the catch branch of doSync when options.onAlert throws: the exception
\* leaves doSync through finally, and the timer callback that awaited
\* doSync ends without reaching scheduleNextSync
FailedAlertThrows(svc, c) ==
  [svc EXCEPT
     !.consecutiveFailures = @ + 1,
     !.currentRetryDelay = Min(@ * 2, MaxRetryDelayMs),
     !.isSyncing = FALSE,
     !.syncs = @ (-) SetToBag({c}),
     !.lastResult = [NoSyncResult EXCEPT
                       !.error = "onAlert_threw", !.origin = c.origin,
                       !.alerted = TRUE]]

\* fetch fails at or above the alert threshold and onAlert throws
FetchFailsAlertThrows(c) ==
  /\ c \in BagToSet(service.syncs)
  /\ c.pc = "fetch"
  /\ service.consecutiveFailures < MaxSyncFailures
  /\ ShouldAlert(service.consecutiveFailures + 1)
  /\ recordSyncFailure
  /\ service' = FailedAlertThrows(service, c)
  /\ UNCHANGED <<applied, cleanupTimer, files>>

\* the service with an onAlert callback that may throw
NextAlert ==
  \/ NextService
  \/ \E c \in BagToSet(service.syncs) : FetchFailsAlertThrows(c)

SpecAlert == InitServing /\ [][NextAlert]_vars

---------------------------------------------------------------------------
(* The CLI command "multi-tenant config sync": a process that constructs    *)
(* a manager and a sync service, awaits syncNow() once and reports          *)

CommandName == "multiTenantConfigSyncCommand"

\* what syncNow() resolved with
SyncNowResult(result) ==
  [success |-> result.success, usersUpdated |-> result.usersUpdated,
   error |-> result.error]

NoSyncNowResult == SyncNowResult(NoSyncResult)

\* what the command writes: runtime.log or runtime.error, the text or the
\* fields of the JSON document
Output(stream, text, success, usersUpdated, error) ==
  [stream |-> stream, text |-> text, success |-> success,
   usersUpdated |-> usersUpdated, error |-> error]

NotEnabled == Output("error", "Multi-tenant mode is not enabled", FALSE,
                     NoSyncNowResult, "none")

\* the try block after the await: updated is whatever syncNow resolved with
Resolved(json, updated) ==
  Output("log", IF json THEN "json" ELSE "Sync complete", TRUE, updated, "none")

\* (the catch block runs when syncNow rejects; doSync catches what fetch and
\* updateUserConfigs throw and resolves with success = false, and the command
\* sets no onAlert, so it is not reached)

CommandInFlight == { c \in InFlight : c.kind = "cli" }

\* the command up to createConfigSyncService, in a new process: the manager
\* and the service are new, the data directory is as it was left
CommandStarts(json, enabled) ==
  /\ calls = EmptyBag
  /\ service.syncs = EmptyBag
  /\ userInstances' = <<>>
  /\ tokenToUserId' = [t \in Tokens |-> NoUser]
  /\ workspaceResolvers' = {}
  /\ lastSyncAt' = NoTime
  /\ syncFailures' = 0
  /\ service' = NewConfigSyncService
  /\ calls' = IF enabled
              THEN SetToBag({[kind |-> "cli", pc |-> "syncNow", json |-> json]})
              ELSE calls
  /\ lastOp' = Op(CommandName,
                  [json |-> json, enabled |-> enabled,
                   syncNow |-> NoSyncNowResult],
                  IF enabled THEN Output("log", "Syncing configs", FALSE,
                                         NoSyncNowResult, "none")
                  ELSE NotEnabled)
  /\ emitted' = <<>>
  /\ UNCHANGED <<disk, cloudBackendUrl, now, reqs, contexts, synced, applied,
                 cleanupTimer, files>>

\* await configSync.syncNow(): doSync up to its fetch
CommandSyncNow ==
  /\ CommandInFlight # {}
  /\ service.syncs = EmptyBag
  /\ service.lastResult.origin = "none"
  /\ lastOp.op = CommandName
  /\ DoSyncBegin("syncNow")

\* the continuation of the command when syncNow has resolved
CommandReports(c) ==
  /\ c \in CommandInFlight
  /\ service.lastResult.origin = "syncNow"
  /\ calls' = Finished(c)
  /\ service' = [service EXCEPT !.lastResult = NoSyncResult]
  /\ lastOp' = Op(CommandName,
                  [json |-> c.json, enabled |-> TRUE,
                   syncNow |-> SyncNowResult(service.lastResult)],
                  Resolved(c.json, SyncNowResult(service.lastResult)))
  /\ emitted' = <<>>
  /\ UNCHANGED <<userInstances, tokenToUserId, workspaceResolvers, disk,
                 lastSyncAt, syncFailures, cloudBackendUrl, now, reqs,
                 contexts, synced, applied, cleanupTimer, files>>

\* the steps of the sync are those of the service; the continuation of the
\* command runs as soon as syncNow has resolved
NextCli ==
  \/ \E json \in BOOLEAN, enabled \in BOOLEAN : CommandStarts(json, enabled)
  \/ CommandSyncNow
  \/ \E c \in CommandInFlight : CommandReports(c)
  \/ \E c \in BagToSet(service.syncs) : FetchFails(c)
  \/ \E c \in BagToSet(service.syncs), response \in SyncResponses,
        n \in 0..MaxPage, k \in 0..MaxPage :
       \E r \in PageRecords(n, k) : FetchResponds(c, response, n, k, r)
  \/ \E c \in BagToSet(service.syncs), u \in InFlight, ok \in BOOLEAN,
        k \in 0..MaxPage :
       /\ u.kind = "update"
       /\ \E r \in PageRecords(u.remaining, k) : ApplyWritten(c, u, ok, k, r)

SpecCli == InitProvisioned /\ [][NextCli]_vars

---------------------------------------------------------------------------
(* runAgentAutoMode(params, multiTenantContext): the choice between the     *)
(* tenant's run and the standard run, and what runEmbeddedPiAgent is        *)
(* called with                                                              *)

RunUserIds == { <<"a">>, <<"b">> }

\* the caller's RunEmbeddedPiAgentParams
AgentParams ==
  { [workspaceDir |-> <<"w0">>, agentDir |-> <<"d0">>, config |-> c] :
      c \in {"c0", "c9"} }

\* multiTenantContext = null or undefined
NoContext ==
  [userId |-> NoUser, status |-> "none", workspacePath |-> <<>>,
   agentDir |-> <<>>, config |-> "none"]

\* a MultiTenantAgentContext: status is context.userInstance.status, the
\* instance the context was resolved with
AgentContext(userId, status, config) ==
  [userId |-> userId, status |-> status,
   workspacePath |-> <<"users">> \o userId,
   agentDir |-> <<"users">> \o userId \o <<"agent">>,
   config |-> config]

AgentContexts ==
  { AgentContext(u, st, c) : u \in RunUserIds, st \in Statuses, c \in {"c1"} }

\* a test for the context alone
ContextSupplied(context) == context # NoContext

\* if (!context) return false; return context.userInstance.status === "active"
shouldUseMultiTenantMode(context) ==
  IF context = NoContext THEN FALSE ELSE context.status = "active"

\* extractAgentPaths(context), and the params runMultiTenantAgent passes on
TenantRun(context) ==
  [workspaceDir |-> context.workspacePath, agentDir |-> context.agentDir,
   config |-> context.config, wrapped |-> TRUE]

\* runEmbeddedPiAgent(params)
StandardRun(params) ==
  [workspaceDir |-> params.workspaceDir, agentDir |-> params.agentDir,
   config |-> params.config, wrapped |-> FALSE]

\* runAgentAutoMode up to the await of runEmbeddedPiAgent; request slot r is
\* taken by a tenant's run until WrapExit
runAgentAutoMode(r, params, context) ==
  /\ reqs[r] = NoUser
  /\ \A q \in 1..MaxReqs : q < r => reqs[q] # NoUser
  /\ IF shouldUseMultiTenantMode(context)
     THEN /\ userInstances' = incrementPendingRequests(userInstances, context.userId)
          /\ reqs' = [reqs EXCEPT ![r] = context.userId]
          /\ lastOp' = Op("runAgentAutoMode",
                          [params |-> params, context |-> context],
                          TenantRun(context))
     ELSE /\ lastOp' = Op("runAgentAutoMode",
                          [params |-> params, context |-> context],
                          StandardRun(params))
          /\ UNCHANGED <<userInstances, reqs>>
  /\ emitted' = <<>>
  /\ UNCHANGED <<tokenToUserId, workspaceResolvers, disk, lastSyncAt,
                 syncFailures, cloudBackendUrl, now, calls, contexts, synced,
                 service, applied, cleanupTimer, files>>

\* a manager that has tenant "a" cached, in any status
InitRun ==
  /\ \E st \in Statuses :
       userInstances = <<[userId |-> <<"a">>, config |-> "c1", status |-> st,
                          llmApiKey |-> "undefined", lastActivityAt |-> 0,
                          pendingRequests |-> 0]>>
  /\ tokenToUserId = [t \in Tokens |-> NoUser]
  /\ workspaceResolvers = {<<"a">>}
  /\ lastSyncAt = NoTime
  /\ syncFailures = 0
  /\ cloudBackendUrl = TRUE
  /\ now = 0
  /\ calls = EmptyBag
  /\ reqs = [s \in 1..MaxReqs |-> NoUser]
  /\ contexts = RunUserIds
  /\ synced = [u \in Users |-> "none"]
  /\ service = NewConfigSyncService
  /\ applied = NothingApplied
  /\ cleanupTimer = NoCleanupTimer
  /\ lastOp = Op("new", NoUser, NoUser)
  /\ emitted = <<>>
  /\ disk = [u \in Users |-> "c1"]
  /\ files = NoWorkspace

NextRun ==
  \/ \E r \in 1..MaxReqs, params \in AgentParams,
        context \in AgentContexts \cup {NoContext} :
       runAgentAutoMode(r, params, context)
  \/ \E r \in 1..MaxReqs : WrapExit(r)
  \/ Tick

SpecRun == InitRun /\ [][NextRun]_vars

Next ==
  \/ NextEvict \/ NextAuth \/ NextSync \/ NextBatch \/ NextTwice \/ NextStop
  \/ NextActivity \/ NextConnect \/ NextPaths \/ NextTenants
  \/ NextWorkspace \/ NextConfigFile \/ NextSetup
  \/ NextLru \/ NextAlert \/ NextCli \/ NextRun

Spec == Init /\ [][Next]_vars

---------------------------------------------------------------------------
(* Properties of eviction and of the pending-request counter (SpecEvict)   *)

\* C1: a cached instance whose pendingRequests is above zero is still in the
\* cache after every step of the manager, whichever operation the step is.
C1_PendingNeverRemoved ==
  [][\A i \in 1..Len(userInstances) :
       userInstances[i].pendingRequests > 0
         => Has(userInstances', userInstances[i].userId)]_vars

\* the wrapped requests in flight for a (sanitized) user id
RequestsInFlight(userId) ==
  { r \in 1..MaxReqs : Truthy(reqs[r]) /\ sanitizeUserId(reqs[r]) = userId }

\* C4: while the function passed to wrapWithPendingRequests is executing
\* for a user, a run of cleanupInactiveUsers does not remove that user's
\* cached instance.
C4_WrappedNotCleanedUp ==
  [][lastOp'.op = "cleanupInactiveUsers" =>
       \A i \in 1..Len(userInstances) :
         RequestsInFlight(userInstances[i].userId) # {}
           => Has(userInstances', userInstances[i].userId)]_vars

---------------------------------------------------------------------------
(* Properties of authentication (SpecAuth)                                 *)

\* C2: whenever authenticateToken resolves to a user id, synchronously from
\* the token index or after the remote verify call, that user is cached
\* with status active.
C2_OnlyActiveAuthenticates ==
  /\ (lastOp.op = "authenticateToken" /\ lastOp.ret.settled
        /\ Truthy(lastOp.ret.value))
       => /\ Has(userInstances, lastOp.ret.value)
          /\ Get(userInstances, lastOp.ret.value).status = "active"
  /\ (lastOp.op = "authenticateTokenDone" /\ Truthy(lastOp.ret.userId))
       => /\ Has(userInstances, lastOp.ret.userId)
          /\ Get(userInstances, lastOp.ret.userId).status = "active"

\* C3: with a manager configured and a gateway token offered, a token for
\* which authenticateToken has resolved to null is answered with ok=false
\* and reason gateway_token_invalid, and ok=true is answered only for a
\* token authenticateToken has resolved to a user id.
C3_ConnectFollowsAuthentication ==
  (lastOp.op = "authorizeGatewayConnectMultiTenant"
     /\ lastOp.ret.method # "standard" /\ lastOp.arg.authenticated.settled)
    => IF Truthy(lastOp.arg.authenticated.value)
       THEN lastOp.ret.ok /\ lastOp.ret.method = "gateway-token"
       ELSE ~lastOp.ret.ok /\ lastOp.ret.reason = "gateway_token_invalid"

\* C7: when a remote verify for a token has ended with a user id and the
\* token resolves to that user's cached instance, the instance's status is
\* the status the verify response carried.
C7_StatusFollowsVerify ==
  (/\ lastOp.op = "authenticateTokenDone"
   /\ Truthy(lastOp.ret.userId)
   /\ tokenToUserId[lastOp.arg] = lastOp.ret.userId
   /\ Has(userInstances, lastOp.ret.userId))
    => Get(userInstances, lastOp.ret.userId).status = lastOp.ret.verified

---------------------------------------------------------------------------
(* Properties of config sync (SpecSync, SpecBatch)                         *)

\* C6: once a record has been applied for a user, the cached instance of
\* that user, which is what every later getUserInstance or authenticateToken
\* call observes, has the config the record stored and the record's status.
C6_UpdateVisible ==
  \A i \in 1..Len(userInstances) :
    synced[userInstances[i].userId] # "none"
      => /\ userInstances[i].config = disk[userInstances[i].userId]
         /\ userInstances[i].status = synced[userInstances[i].userId]

\* the user of the record an update call is waiting on
RecordUser(c) == sanitizeUserId(c.cloudConfig.userId)

\* C8: when the write of the last record of a batch settles, either it
\* failed and the token index, the stored config and the cached instance of
\* that user are as they were before the record was started, or it
\* succeeded and disk and cached instance both hold the record's config.
C8_RecordAtomic ==
  [][\A c \in InFlight :
       (c.kind = "update" /\ lastOp'.op = "updateUserConfigsDone") =>
          IF lastOp'.arg.prev = "failed"
          THEN /\ tokenToUserId'[c.cloudConfig.gatewayToken] = c.priorUserId
               /\ disk'[RecordUser(c)] = disk[RecordUser(c)]
               /\ userInstances' = userInstances
          ELSE /\ disk'[RecordUser(c)] = c.cloudConfig.openclawConfig
               /\ Has(userInstances', RecordUser(c)) =>
                    Get(userInstances', RecordUser(c)).config
                      = c.cloudConfig.openclawConfig]_vars

\* C9: when a batch ends no record is left unprocessed, the returned and
\* the emitted count are the number of records whose write succeeded,
\* lastSyncAt is the current time and syncFailures is 0; after a record
\* has failed the loop goes on to the next one.
C9_BatchCompletes ==
  /\ lastOp.op = "updateUserConfigsDone" =>
       /\ lastOp.arg.remaining = 0
       /\ lastOp.ret = lastOp.arg.written
       /\ emitted = <<[type |-> "config-synced", usersUpdated |-> lastOp.arg.written,
                       timestamp |-> now]>>
       /\ lastSyncAt = now
       /\ syncFailures = 0
  /\ lastOp.op = "updateRecord" => UpdateInFlight

\* a batch has ended at a time after construction, its last record
\* failed to persist and one record before it was applied
C9_Witness ==
  /\ lastOp.op = "updateUserConfigsDone"
  /\ lastOp.arg.prev = "failed"
  /\ lastOp.ret = 1
  /\ now > 0

\* C10: right after the loop has started a record, the token index maps the
\* record's gatewayToken to the record's sanitized user id, and authenticating
\* with the token locally does not resolve to the user the token pointed at
\* before.
C10_TokenRebinds ==
  \A c \in InFlight :
    (c.kind = "update" /\ lastOp.op = "updateRecord") =>
       /\ tokenToUserId[c.cloudConfig.gatewayToken] = RecordUser(c)
       /\ (Truthy(c.priorUserId) /\ c.priorUserId # RecordUser(c))
            => AuthLocalResult(c.cloudConfig.gatewayToken) # c.priorUserId

\* a record has been started whose token pointed at another user, who is
\* cached with status active
C10_Witness ==
  \E c \in InFlight :
    /\ c.kind = "update" /\ lastOp.op = "updateRecord"
    /\ Truthy(c.priorUserId) /\ c.priorUserId # RecordUser(c)
    /\ Has(userInstances, c.priorUserId)
    /\ Get(userInstances, c.priorUserId).status = "active"

---------------------------------------------------------------------------
(* Properties of cleanupInactiveUsers and forceEvictUser (SpecEvict)       *)

\* the user-evicted events of a step that carry the given reason
EvictedFor(events, reason) ==
  SelectSeq(events, LAMBDA e : e.type = "user-evicted" /\ e.reason = reason)

\* C18: a run of cleanupInactiveUsers emits one user-evicted event with
\* reason idle for exactly the cached instances that had no pending request
\* and were idle for longer than userIdleTimeoutMs, removes these, and
\* leaves every instance with a pending request in place, unchanged.
C18_IdlePassExact ==
  [][lastOp'.op = "cleanupInactiveUsers" =>
       LET idle == { userInstances[i].userId : i \in
                       { j \in 1..Len(userInstances) :
                           /\ userInstances[j].pendingRequests = 0
                           /\ now - userInstances[j].lastActivityAt
                                > UserIdleTimeoutMs } }
           events == EvictedFor(emitted', "idle")
       IN  /\ { events[i].userId : i \in 1..Len(events) } = idle
           /\ Len(events) = Cardinality(idle)
           /\ \A u \in idle : ~Has(userInstances', u)
           /\ \A i \in 1..Len(userInstances) :
                userInstances[i].pendingRequests >= 1 =>
                  /\ Has(userInstances', userInstances[i].userId)
                  /\ Get(userInstances', userInstances[i].userId) = userInstances[i]]_vars

\* a cleanup has evicted an idle instance and has left in place an instance
\* that is idle as long but has a pending request
C18_Witness ==
  /\ lastOp.op = "cleanupInactiveUsers"
  /\ Len(EvictedFor(emitted, "idle")) > 0
  /\ \E i \in 1..Len(userInstances) :
       /\ userInstances[i].pendingRequests >= 1
       /\ now - userInstances[i].lastActivityAt > UserIdleTimeoutMs

---------------------------------------------------------------------------
(* Properties of repeated batches (SpecTwice)                              *)

\* C11: when updateUserConfigs has been applied again with the list of the
\* first call, every write settling as it did then, token index, stored
\* configs and cached instances (config, status, llmApiKey, pendingRequests)
\* are what the first call left; and no step moves lastSyncAt backwards.
C11_SyncIdempotent ==
  /\ [](( /\ lastOp.op = "updateUserConfigsDone"
          /\ applied.replays >= 1
          /\ applied.same ) => Snapshot = applied.snapshot)
  /\ [][lastSyncAt' >= lastSyncAt]_vars

\* the list has been applied a second time, at a later time than the
\* construction, with the same outcomes; it holds a record that was written
\* and changed the config of the cached tenant, and a record that failed
C11_Witness ==
  /\ lastOp.op = "updateUserConfigsDone"
  /\ applied.replays >= 1
  /\ applied.same
  /\ now > 0
  /\ \E i \in 1..Len(applied.batch) :
       /\ applied.batch[i].ok
       /\ applied.batch[i].rec.userId = <<"a">>
       /\ applied.batch[i].rec.openclawConfig = "c2"
  /\ \E i \in 1..Len(applied.batch) : ~applied.batch[i].ok
  /\ Len(userInstances) > 0

---------------------------------------------------------------------------
(* Properties of ConfigSyncService (SpecService)                           *)

\* a doSync call returned in this step; service.lastResult' is its result
Returned == service' # service /\ service'.lastResult.origin # "none"

\* the doSync calls that passed the isSyncing test in this step
Begun == { c \in BagToSet(service'.syncs) :
             c.pc = "fetch" /\ ~BagIn(c, service.syncs) }

\* C12: after the k-th consecutive failed sync (k >= 1) the next attempt is
\* scheduled min(initialRetryDelayMs * 2^(k-1), maxRetryDelayMs) later, and
\* a successful sync sets the retry delay back to initialRetryDelayMs.
C12_BackoffDelay ==
  /\ [][( /\ Returned
          /\ service'.lastResult.error = "fetch_failed"
          /\ service'.lastResult.origin = "timer"
          /\ service'.isRunning )
        => service'.syncTimer =
             Timer(Min(InitialRetryDelayMs * 2^(service'.consecutiveFailures - 1),
                       MaxRetryDelayMs))]_vars
  /\ [][(Returned /\ service'.lastResult.success)
        => service'.currentRetryDelay = InitialRetryDelayMs]_vars

C14_SingleSyncInFlight ==
  /\ [](BagCardinality(service.syncs) <= 1)
  /\ [][(Begun # {}) => service.syncs = EmptyBag]_vars
  /\ [][(Returned /\ service.syncs # EmptyBag /\ service'.syncs = service.syncs)
        => /\ service'.lastResult.error = "sync_in_progress"
           /\ ~service'.lastResult.success
           /\ service'.lastResult.usersUpdated = 0
           /\ service'.consecutiveFailures = service.consecutiveFailures
           /\ service'.currentRetryDelay = service.currentRetryDelay
           /\ service'.lastSyncTimestamp = service.lastSyncTimestamp
           /\ service'.isSyncing = service.isSyncing
           /\ UNCHANGED <<userInstances, tokenToUserId, workspaceResolvers, disk,
                          lastSyncAt, syncFailures, calls, synced>>]_vars

\* syncNow was refused while the sync in flight was writing a record
C14_Witness ==
  /\ service.lastResult.error = "sync_in_progress"
  /\ service.lastResult.origin = "syncNow"
  /\ \E c \in BagToSet(service.syncs) : c.pc = "apply"
  /\ UpdateInFlight

\* C15: after a successful sync of a running service, started by the timer
\* or by syncNow, the next sync is scheduled 100 ms later when the response
\* had hasMore, and syncIntervalMs later otherwise.
C15_NextSyncAfterSuccess ==
  [][(Returned /\ service'.lastResult.success /\ service'.isRunning)
     => service'.syncTimer =
          Timer(IF service'.lastResult.hasMore THEN FollowUpDelayMs
                ELSE SyncIntervalMs)]_vars

\* C16: every fetch carries since = the syncTimestamp of the most recent
\* successful sync, and none before the first success; lastSyncTimestamp
\* changes only when a sync succeeds, so a failed sync leaves it as it was.
C16_SinceIsLastSuccess ==
  /\ [][\A c \in Begun : c.since = service.lastSuccess]_vars
  /\ [][(service'.lastSyncTimestamp # service.lastSyncTimestamp)
        => (Returned /\ service'.lastResult.success)]_vars
  /\ [][(Returned /\ service'.lastResult.error = "fetch_failed")
        => service'.lastSyncTimestamp = service.lastSyncTimestamp]_vars

\* a fetch under way after two successes with different timestamps and a
\* failure carries the timestamp of the second success
C16_Witness ==
  /\ \E c \in BagToSet(service.syncs) : c.pc = "fetch" /\ c.since = "s2"
  /\ service.lastSuccess = "s2"
  /\ service.consecutiveFailures > 0
  /\ lastSyncAt # NoTime

\* C17: while the service is stopped no timer is pending and no doSync is
\* begun by the timer, also after a sync that was in flight at stop() has
\* returned; and neither ConfigSyncService.stop() nor the manager's stop()
\* changes an instance.
C17_StopHaltsScheduling ==
  /\ [](~service.isRunning => ~service.syncTimer.pending)
  /\ [][\A c \in Begun : c.origin = "timer" => service.isRunning]_vars
  /\ [][(lastOp'.op \in {"serviceStop", "managerStop"})
        => userInstances' = userInstances]_vars

\* a timer sync that was in flight when the service was stopped has returned
\* with success and hasMore; the tenant's request is still running
C17_Witness ==
  /\ ~service.isRunning
  /\ service.lastResult.success
  /\ service.lastResult.origin = "timer"
  /\ service.lastResult.hasMore /\ service.lastResult.nextCursor
  /\ service.syncTimer = NoTimer
  /\ \E i \in 1..Len(userInstances) : userInstances[i].pendingRequests = 1

---------------------------------------------------------------------------
(* Properties of authenticateToken (SpecLogin)                             *)

\* the cached instance a token resolves to locally has this status
CachedStatus(token, status) ==
  /\ Truthy(tokenToUserId[token])
  /\ Has(userInstances, tokenToUserId[token])
  /\ Get(userInstances, tokenToUserId[token]).status = status

\* C21: authenticateToken on a token whose cached instance is suspended
\* (expired) resolves to null at once, emits one user-suspended
\* (user-expired) event for that user and nothing else, starts no verify
\* call and leaves instances and token index as they were.
C21_BlockedTenantRejected ==
  [][\A t \in Tokens, st \in {"suspended", "expired"} :
       (lastOp'.op = "authenticateToken" /\ lastOp'.arg = t /\ CachedStatus(t, st))
       => /\ lastOp'.ret = Promise(TRUE, NoUser)
          /\ emitted' = <<Event("user-" \o st, tokenToUserId[t], "")>>
          /\ calls' = calls
          /\ userInstances' = userInstances
          /\ tokenToUserId' = tokenToUserId]_vars

\* an expired tenant's token has just been refused, later than the tenant
\* was cached
C21_Witness ==
  /\ lastOp.op = "authenticateToken"
  /\ CachedStatus(lastOp.arg, "expired")
  /\ emitted = <<Event("user-expired", <<"a">>, "")>>
  /\ now > Get(userInstances, <<"a">>).lastActivityAt

\* after the step the instance of userId is cached with the current time as
\* its lastActivityAt
Refreshed(userId) ==
  /\ Has(userInstances', userId)
  /\ Get(userInstances', userId).lastActivityAt = now'

\* C22: lastActivityAt of the cached instance is set to the current time by
\* every getUserInstance cache hit, every incrementPendingRequests, every
\* decrementPendingRequests on a counter above zero and every authenticateToken
\* that resolves to the user; decrementPendingRequests on a counter at zero
\* changes nothing.
C22_ActivityRefreshed ==
  [][(vars' # vars) =>
       /\ (lastOp'.op = "getUserInstance" /\ lastOp'.ret = "hit")
            => Refreshed(sanitizeUserId(lastOp'.arg))
       /\ (lastOp'.op = "wrapEnter" /\ lastOp'.ret = "incremented")
            => Refreshed(sanitizeUserId(lastOp'.arg))
       /\ (lastOp'.op = "wrapExit" /\ Has(userInstances, sanitizeUserId(lastOp'.arg)))
            => IF Get(userInstances, sanitizeUserId(lastOp'.arg)).pendingRequests > 0
               THEN Refreshed(sanitizeUserId(lastOp'.arg))
               ELSE userInstances' = userInstances
       /\ (lastOp'.op = "authenticateToken" /\ Truthy(lastOp'.ret.value))
            => Refreshed(lastOp'.ret.value)
       /\ (lastOp'.op = "authenticateTokenDone" /\ Truthy(lastOp'.ret.userId))
            => Refreshed(lastOp'.ret.userId)]_vars

\* the authenticateToken call c returns in this step
AuthReturns(c) ==
  /\ c \in InFlight
  /\ c.kind = "auth"
  /\ calls' = Finished(c)
  /\ lastOp'.op = "authenticateTokenDone"
  /\ lastOp'.arg = c.token

\* C23: a call that went to the cloud backend and returns a user id has put
\* the token into the index and the tenant is cached, with the returned
\* config when the call provisioned it; a call that returns null - after
\* 401, another HTTP error, a missing record, a transport error or a
\* failure while provisioning - has left the token index and the instance
\* cache as they were; and each call makes one verify call.
C23_VerifyOutcome ==
  [][\A c \in InFlight :
       AuthReturns(c) =>
         /\ c.pc = "fetch" \/ c.pc = "init"
         /\ Truthy(lastOp'.ret.userId)
              => /\ tokenToUserId'[c.token] = lastOp'.ret.userId
                 /\ Has(userInstances', lastOp'.ret.userId)
                 /\ c.pc = "init"
                      => Get(userInstances', lastOp'.ret.userId).config = c.config
         /\ ~Truthy(lastOp'.ret.userId)
              => /\ userInstances' = userInstances
                 /\ tokenToUserId' = tokenToUserId
                 /\ c.pc = "init" => tokenToUserId'[c.token] = c.priorUserId]_vars

---------------------------------------------------------------------------
(* Properties of the token channels (SpecConnect)                          *)

\* C24: the gateway token of the ConnectAuth is chosen by precedence
\* connect payload > X-Gateway-Token header > Authorization: Bearer header:
\* a token given in the payload is kept whatever the headers hold, and
\* without one X-Gateway-Token wins over Bearer.
C24_TokenPrecedence ==
  lastOp.op = "buildConnectAuthFromRequest" =>
    LET req == lastOp.arg.req
        payload == lastOp.arg.existingAuth
        xHeader == req.xGatewayToken.defined /\ Trim(req.xGatewayToken.value) # <<>>
    IN  /\ (payload.defined /\ payload.value # <<>> /\ ~req.query.defined)
             => lastOp.ret = payload
        /\ (~payload.defined /\ xHeader)
             => lastOp.ret = Str(Trim(req.xGatewayToken.value))
        /\ (~payload.defined /\ ~xHeader /\ BearerMatch(req.authorization).defined)
             => lastOp.ret = Str(Trim(BearerMatch(req.authorization).value))

IdSegment(seg) ==
  /\ seg # <<>> /\ seg # <<".">> /\ seg # <<".", ".">>
  /\ \A i \in 1..Len(seg) : seg[i] \notin {"/", "\\"}

HasSeparator(s) == \E i \in 1..Len(s) : s[i] \in {"/", "\\"}

HasDotDot(s) == \E i \in 1..(Len(s) - 1) : s[i] = "." /\ s[i + 1] = "."

\* C25: for every raw user id, either the derivation fails with InvalidUserId
\* or the workspace path is {workspaceRoot}/users/<segment> and the config
\* path is {configRoot}/users/<segment>/config.json, the segment being
\* non-empty, free of path separators and neither "." nor "..".
C25_PathsStayBelowUsers ==
  lastOp.op = "getUserPaths" =>
    \/ lastOp.ret.throws
    \/ LET w == lastOp.ret.workspacePath
           c == lastOp.ret.configPath
       IN  /\ Len(w) = Len(WorkspaceRoot) + 2
           /\ SubSeq(w, 1, Len(w) - 1) = WorkspaceRoot \o <<UsersDir>>
           /\ IdSegment(w[Len(w)])
           /\ Len(c) = Len(ConfigRoot) + 3
           /\ SubSeq(c, 1, Len(c) - 2) = ConfigRoot \o <<UsersDir>>
           /\ IdSegment(c[Len(c) - 1])
           /\ c[Len(c)] = ConfigFile

C25_Witness ==
  /\ lastOp.op = "getUserPaths"
  /\ ~lastOp.ret.throws
  /\ HasSeparator(lastOp.arg.userId)
  /\ HasDotDot(lastOp.arg.userId)
  /\ lastOp.ret.workspacePath = WorkspaceRoot \o <<UsersDir, <<"a">> >>

\* C26: every operation that builds a path from a user id uses the id only
\* after sanitizeUserId: the path is the one of the sanitized id, and no path
\* is built from an id that sanitizeUserId rejects.
C26_PathsUseSanitizedId ==
  /\ lastOp.op = "getUserPaths" =>
       IF SanitizeThrows(lastOp.arg.userId)
       THEN lastOp.ret.throws /\ lastOp.ret.workspacePath = NoPath
       ELSE lastOp.ret.workspacePath
              = WorkspaceRoot \o <<UsersDir, sanitizeUserId(lastOp.arg.userId)>>
  /\ lastOp.op = "setupUserWorkspace" =>
       /\ ~SanitizeThrows(lastOp.arg.userId)
       /\ lastOp.ret.workspaceDir
            = WorkspaceRoot \o <<UsersDir, sanitizeUserId(lastOp.arg.userId)>>

\* Position i of s lies in a ".." that a left-to-right, non-overlapping
\* search finds: within its maximal run of dots, the pairs cover the first
\* 2 * (length \div 2) positions.
InDotPair(s, i) ==
  /\ s[i] = "."
  /\ LET first == CHOOSE r \in 1..i :
                    /\ \A j \in r..i : s[j] = "."
                    /\ r = 1 \/ s[r - 1] # "."
         last == CHOOSE e \in i..Len(s) :
                    /\ \A j \in i..e : s[j] = "."
                    /\ e = Len(s) \/ s[e + 1] # "."
     IN  (i - first) < 2 * ((last - first + 1) \div 2)

KeptPositions(s) ==
  { i \in 1..Len(s) : ~InDotPair(s, i) /\ s[i] \notin {"/", "\\"} }

\* The characters at the kept positions, in order, each one outside the
\* allowed alphabet replaced by "_".
RemovedAndReplaced(s) ==
  LET kept == KeptPositions(s)
      at(k) == CHOOSE i \in kept : Cardinality({ j \in kept : j <= i }) = k
  IN  [k \in 1..Cardinality(kept) |->
         IF s[at(k)] \in AllowedChars THEN s[at(k)] ELSE "_"]

\* Every ".." and every path separator replaced by one "_", as every other
\* character outside the allowed alphabet.
RECURSIVE MappedToUnderscore(_)
MappedToUnderscore(s) ==
  LET Match(i) == s[i] = "." /\ s[i + 1] = "."
      Mapped(t) == [i \in 1..Len(t) |->
                     IF t[i] \in AllowedChars THEN t[i] ELSE "_"]
  IN  IF \A i \in 1..(Len(s) - 1) : ~Match(i) THEN Mapped(s)
      ELSE LET m == CHOOSE i \in 1..(Len(s) - 1) :
                      Match(i) /\ \A j \in 1..(i - 1) : ~Match(j)
           IN  Mapped(SubSeq(s, 1, m - 1)) \o <<"_">>
               \o MappedToUnderscore(SubSeq(s, m + 2, Len(s)))

\* C27: sanitizeUserId(s) removes every ".." and every path separator of s,
\* replaces each remaining character outside [A-Za-z0-9_-] by "_", and fails
\* with InvalidUserId exactly when the result is empty or longer than 128
\* characters.
C27_SanitizeRemoves ==
  lastOp.op = "getUserPaths" =>
    /\ lastOp.ret.sanitized = RemovedAndReplaced(lastOp.arg.userId)
    /\ \A i \in 1..Len(lastOp.ret.sanitized) :
         lastOp.ret.sanitized[i] \in AllowedChars
    /\ lastOp.ret.throws <=> \/ Len(lastOp.ret.sanitized) = 0
                             \/ Len(lastOp.ret.sanitized) > 128

\* C27 as stated: path separators and ".." are mapped to "_".
C27_SanitizeMaps ==
  lastOp.op = "getUserPaths" =>
    /\ lastOp.ret.sanitized = MappedToUnderscore(lastOp.arg.userId)
    /\ \A i \in 1..Len(lastOp.ret.sanitized) :
         lastOp.ret.sanitized[i] \in AllowedChars
    /\ lastOp.ret.throws <=> \/ Len(lastOp.ret.sanitized) = 0
                             \/ Len(lastOp.ret.sanitized) > 128

C27_Witness ==
  /\ lastOp.op = "getUserPaths"
  /\ ~lastOp.ret.throws
  /\ HasSeparator(lastOp.arg.userId)
  /\ HasDotDot(lastOp.arg.userId)
  /\ lastOp.ret.sanitized = <<"_">>

\* C28: what the manager does for one user id of the cloud backend leaves
\* every other user id's data alone: the two ids have different workspace
\* and config paths, and a record of a sync batch that is written for one id
\* changes neither the stored config nor the cached instance (config, status,
\* pending counter) of the other.
C28_TenantsIsolated ==
  [][\A c \in InFlight :
       (/\ c.kind = "update" /\ c.pc = "write"
        /\ lastOp'.op \in {"updateRecord", "updateUserConfigsDone"}
        /\ lastOp'.arg.prev = "written") =>
          \A v \in TenantUserIds \ {c.cloudConfig.userId} :
            /\ getUserWorkspacePath(v, "posix")
                 # getUserWorkspacePath(c.cloudConfig.userId, "posix")
            /\ getUserConfigPath(v, "posix")
                 # getUserConfigPath(c.cloudConfig.userId, "posix")
            /\ disk'[sanitizeUserId(v)] = disk[sanitizeUserId(v)]
            /\ Has(userInstances, sanitizeUserId(v)) =>
                 /\ Has(userInstances', sanitizeUserId(v))
                 /\ Get(userInstances', sanitizeUserId(v))
                      = Get(userInstances, sanitizeUserId(v))]_vars

\* what the three layers hold for a name: custom before template before
\* the built-in default
Layered(safeName) ==
  IF files.custom[safeName] # NoFile THEN files.custom[safeName]
  ELSE IF files.template[safeName] # NoFile THEN files.template[safeName]
  ELSE IF safeName = "SOUL.md" THEN "# Soul"
  ELSE Null

\* C29: a read(f) that returns, with no write of f running beside it,
\* returns the custom content when the custom file exists, else the
\* template content when the template file exists, else the built-in
\* default, and not-found only when both files are missing and there is no
\* built-in default; after a completed write(f, c) it returns c.
C29_LayeredRead ==
  (/\ lastOp.op = "readWorkspaceFile"
   /\ lastOp.ret # "throw"
   /\ lastOp.arg.quiet) =>
     LET safeName == lastOp.arg.filename[Len(lastOp.arg.filename)]
     IN  /\ lastOp.ret = Layered(safeName)
         /\ lastOp.ret = Null =>
              /\ files.custom[safeName] = NoFile
              /\ files.template[safeName] = NoFile
              /\ safeName # "SOUL.md"
         /\ lastOp.arg.written # NotWritten => lastOp.ret = lastOp.arg.written

\* a read returned the empty content that a write had stored over a
\* template file and a built-in default
C29_Witness ==
  /\ lastOp.op = "readWorkspaceFile"
  /\ lastOp.arg.quiet
  /\ lastOp.arg.filename = <<"..", "SOUL.md">>
  /\ lastOp.arg.written = ""
  /\ lastOp.ret = ""
  /\ files.template["SOUL.md"] = "t"

\* a value JSON has a text for: no undefined and no NaN in it
RECURSIVE JsonSerializable(_)
JsonSerializable(value) ==
  CASE value.t \in {"undefined", "NaN", "none"} -> FALSE
    [] value.t = "array" ->
         \A i \in 1..Len(value.v) : JsonSerializable(value.v[i])
    [] value.t = "object" ->
         \A i \in 1..Len(value.v) : JsonSerializable(value.v[i].v)
    [] OTHER -> TRUE

\* C30: a readUserConfig(u) whose file read does not fail returns null when
\* u has no config file, and returns a value equal to c when the file was
\* written by writeUserConfig(u, c) for a JSON-serializable c.
C30_ConfigRoundTrip ==
  (/\ lastOp.op = "readUserConfig"
   /\ lastOp.ret.outcome \notin {"InvalidUserId", "throw"}) =>
     LET file == disk[sanitizeUserId(lastOp.arg)]
     IN  /\ ~file.exists =>
              lastOp.ret.outcome = "return" /\ lastOp.ret.value = JsNull
         /\ (file.exists /\ JsonSerializable(file.wrote)) =>
              lastOp.ret.outcome = "return" /\ lastOp.ret.value = file.wrote

\* a config with a field whose name and whose text hold characters that
\* JSON escapes was written for the id "b/" and read back
C30_Witness ==
  /\ lastOp.op = "readUserConfig"
  /\ lastOp.arg = <<"b", "/">>
  /\ lastOp.ret.outcome = "return"
  /\ lastOp.ret.value
       = Js("object", <<[k |-> <<"\"">>, v |-> Js("string", <<"\\", "a">>)]>>)
  /\ disk[<<"b">>].wrote = lastOp.ret.value

---------------------------------------------------------------------------
(* Properties of setupUserWorkspace (SpecSetup)                             *)

SetupRan == lastOp'.op = "setupUserWorkspaceRun"

KeepsUserFiles ==
  /\ files.home.dirs \subseteq files'.home.dirs
  /\ \A f \in {"openclaw.json", "HEARTBEAT.md", "USER.md"} :
       files.home.files[f] # Missing =>
         files'.home.files[f] = files.home.files[f]

SameRunAgain ==
  /\ lastOp.op = "setupUserWorkspaceRun" /\ lastOp.ret = "paths"
  /\ lastOp'.arg = lastOp.arg /\ lastOp'.ret = "paths"

---------------------------------------------------------------------------
(* The manager's cleanup interval (SpecStop)                                *)

\* C32: at most one cleanup interval is set, whatever the number of start()
\* calls; stop() leaves none set, and leaves the instances, the token index,
\* the resolvers and the counters as they were.
C32_OneCleanupTimer ==
  [][/\ Cardinality(cleanupTimer'.intervals) <= 1
     /\ lastOp'.op = "managerStop" =>
          /\ cleanupTimer'.intervals = {}
          /\ UNCHANGED <<userInstances, tokenToUserId, workspaceResolvers,
                         lastSyncAt, syncFailures, disk, contexts, calls,
                         reqs>>]_vars

\* start() was called on a started manager that holds an instance
C32_Witness ==
  /\ lastOp.op = "managerStart" /\ lastOp.ret = "running"
  /\ cleanupTimer.intervals # {}
  /\ userInstances # <<>>

---------------------------------------------------------------------------
(* The LRU pass (SpecLru)                                                   *)

\* the instances that the idle pass leaves in the cache
AfterIdlePass ==
  SelectSeq(userInstances,
            LAMBDA x : x.pendingRequests > 0
                         \/ ~(now - x.lastActivityAt > LruIdleTimeoutMs))

\* the instances left when the first k LRU victims are gone
BeforeVictim(lru, k) ==
  SelectSeq(AfterIdlePass,
            LAMBDA x : \A j \in 1..(k - 1) : lru[j].userId # x.userId)

\* C33: every eviction of the LRU pass removes, among the instances then
\* cached that have no pending request, the one with the smallest
\* lastActivityAt, and of several with that value the first in insertion
\* order; the pass goes on while the cache is above maxCachedUsers and such
\* an instance exists; with maxCachedUsers = 2 and idle instances a@1, b@2,
\* c@3 only a is evicted, with reason lru.
C33_LruEvictsOldest ==
  [][lastOp'.op = "cleanupInactiveUsers" =>
       LET lru == EvictedFor(emitted', "lru")
           free == { i \in 1..Len(AfterIdlePass) :
                       AfterIdlePass[i].pendingRequests = 0 }
           excess == Len(AfterIdlePass) - LruMaxCachedUsers
       IN  /\ \A k \in 1..Len(lru) :
                LET rest == BeforeVictim(lru, k)
                IN  \E i \in 1..Len(rest) :
                      /\ rest[i].userId = lru[k].userId
                      /\ rest[i].pendingRequests = 0
                      /\ \A j \in 1..Len(rest) :
                           rest[j].pendingRequests = 0 =>
                             \/ rest[i].lastActivityAt < rest[j].lastActivityAt
                             \/ /\ rest[i].lastActivityAt = rest[j].lastActivityAt
                                /\ i <= j
           /\ Len(lru) = IF excess <= 0 THEN 0
                         ELSE IF excess <= Cardinality(free) THEN excess
                         ELSE Cardinality(free)
           /\ userInstances = <<LruInstance(<<"a">>, 1, 0),
                                LruInstance(<<"b">>, 2, 0),
                                LruInstance(<<"c">>, 3, 0)>>
                => /\ emitted' = <<Event("user-evicted", <<"a">>, "lru")>>
                   /\ userInstances' = <<LruInstance(<<"b">>, 2, 0),
                                         LruInstance(<<"c">>, 3, 0)>>]_vars

\* the LRU pass has evicted b and kept c, loaded after b and of the age
\* below which the idle pass evicts (so b was of that age too), next to an
\* instance of that age with a pending request
C33_Witness ==
  /\ lastOp.op = "cleanupInactiveUsers"
  /\ emitted = <<Event("user-evicted", <<"b">>, "lru")>>
  /\ userInstances = <<LruInstance(<<"a">>, LruNow - LruIdleTimeoutMs, 1),
                       LruInstance(<<"c">>, LruNow - LruIdleTimeoutMs, 0)>>

---------------------------------------------------------------------------
(* The pending-request counter and the requests in flight (SpecEvict)       *)

\* C34: in every reachable state, pendingRequests of every cached instance
\* equals the number of wrapWithPendingRequests calls that are executing
\* for that user.
C34_CounterEqualsInFlight ==
  \A i \in 1..Len(userInstances) :
    userInstances[i].pendingRequests
      = Cardinality(RequestsInFlight(userInstances[i].userId))

---------------------------------------------------------------------------
(* Overlapping loads of one user (SpecEvict, SpecAuth)                      *)

\* C35: an initialization that finishes while its user is cached leaves the
\* cached instance as it is (pendingRequests, status and config included)
\* and emits no second user-loaded event for it.
C35_CachedInstanceNotReplaced ==
  [][lastOp'.op \in {"getUserInstanceDone", "authenticateTokenDone"} =>
       \A i \in 1..Len(userInstances) :
         /\ Has(userInstances', userInstances[i].userId)
         /\ Get(userInstances', userInstances[i].userId) = userInstances[i]
         /\ \A e \in 1..Len(emitted') :
              ~(/\ emitted'[e].type = "user-loaded"
                /\ emitted'[e].userId = userInstances[i].userId)]_vars

---------------------------------------------------------------------------
(* The periodic loop of the sync service (SpecAlert)                        *)

\* C36: while the service is running, a sync is in flight or its timer is
\* pending, whatever the outcome of the syncs before.
C36_LoopNeverStalls ==
  service.isRunning =>
    (service.syncs # EmptyBag \/ service.syncTimer.pending)

---------------------------------------------------------------------------
(* Pages of a sync response (SpecService)                                   *)

\* C37: the request of a follow-up sync, begun by the timer that a response
\* with hasMore and nextCursor has set FollowUpDelayMs ahead, carries the
\* cursor of that response.
C37_FollowUpUsesCursor ==
  [][\A c \in Begun :
       (c.origin = "timer" /\ service.syncTimer.delay = FollowUpDelayMs)
         => c.cursor # NoCursor]_vars

---------------------------------------------------------------------------
(* The two failure counters (SpecAlert)                                     *)

\* C38: when a doSync of the service has ended, the manager's syncFailures
\* equals the service's consecutiveFailures: a failed sync adds one to both
\* and emits sync-failed with the new count, a successful sync leaves both
\* at 0, and a sync refused as in progress changes neither.
C38_FailureCountersAgree ==
  [][Returned =>
       /\ syncFailures' = service'.consecutiveFailures
       /\ service'.lastResult.error \in {"fetch_failed", "onAlert_threw"} =>
            /\ syncFailures' = syncFailures + 1
            /\ emitted' = <<[type |-> "sync-failed",
                             consecutiveFailures |-> service'.consecutiveFailures]>>
       /\ service'.lastResult.success =>
            (syncFailures' = 0 /\ service'.consecutiveFailures = 0)
       /\ service'.lastResult.error = "sync_in_progress" =>
            /\ syncFailures' = syncFailures
            /\ service'.consecutiveFailures = service.consecutiveFailures]_vars

\* a second sync in a row has failed
C38_Witness ==
  /\ service.lastResult.error = "fetch_failed"
  /\ service.consecutiveFailures = 2
  /\ syncFailures = 2

---------------------------------------------------------------------------
(* The report of "multi-tenant config sync" (SpecCli)                       *)

\* C39: when the command has reported, it has reported success only if
\* syncNow resolved with success = true, and after success = false it has
\* reported the failure with the error of the result.
C39_ReportFollowsSyncNow ==
  (lastOp.op = CommandName /\ CommandInFlight = {} /\ lastOp.arg.enabled) =>
    /\ lastOp.ret.success => lastOp.arg.syncNow.success
    /\ ~lastOp.arg.syncNow.success =>
         /\ ~lastOp.ret.success
         /\ lastOp.ret.error = lastOp.arg.syncNow.error

---------------------------------------------------------------------------
(* The mode of an agent run (SpecRun)                                       *)

\* C40: runAgentAutoMode runs the agent with the context's workspace path,
\* agent directory and config, after incrementPendingRequests for the
\* context's user, exactly when a context is supplied whose instance has
\* status active; otherwise it runs the agent with the caller's
\* workspaceDir, agentDir and config and changes no instance.
C40_AutoMode ==
  [][lastOp'.op = "runAgentAutoMode" =>
       LET context == lastOp'.arg.context
           params == lastOp'.arg.params
           run == lastOp'.ret
       IN  IF context.userId # NoUser /\ context.status = "active"
           THEN /\ run.wrapped
                /\ run.workspaceDir = <<"users">> \o context.userId
                /\ run.agentDir = <<"users">> \o context.userId \o <<"agent">>
                /\ run.config = context.config
                /\ \A i \in 1..Len(userInstances) :
                     userInstances'[i].pendingRequests =
                       IF userInstances[i].userId = context.userId
                       THEN userInstances[i].pendingRequests + 1
                       ELSE userInstances[i].pendingRequests
                /\ \E r \in 1..MaxReqs :
                     reqs[r] = NoUser /\ reqs'[r] = context.userId
           ELSE /\ ~run.wrapped
                /\ run.workspaceDir = params.workspaceDir
                /\ run.agentDir = params.agentDir
                /\ run.config = params.config
                /\ UNCHANGED <<userInstances, reqs>>]_vars

\* a run was asked for with the context of a suspended tenant that is
\* cached, and the standard run has started with the caller's config
C40_Witness ==
  /\ lastOp.op = "runAgentAutoMode"
  /\ lastOp.arg.context.status = "suspended"
  /\ Has(userInstances, lastOp.arg.context.userId)
  /\ lastOp.ret.config = "c9"
  /\ ~lastOp.ret.wrapped

====
